---- MODULE Spec2Model ----
(***************************************************************************)
(* Backend-availability resilience layer of the Veilo client:             *)
(* the Connection Manager (findHealthyBackend over the shared API_CONFIG), *)
(* the Health Monitor (BackendHealthService), the request executors       *)
(* (apiRequest, postsService, emergencyApiRequest) and the Emergency      *)
(* Store (the local-storage slot of the offline posts).                   *)
(*                                                                         *)
(* Text is modelled as a sequence of atoms.  An atom is either one        *)
(* character (" ", "{", ":", ">", the double quote "dq", ...) or one of   *)
(* the literals the code searches for ("<!DOCTYPE", "<html", "<title>",  *)
(* "<body>", "http"), so startsWith / includes / trim / replace are the   *)
(* usual sequence operations.  Wall-clock timestamps are left out; the    *)
(* latency of a probe is the elapsed time the environment reports.        *)
(***************************************************************************)
EXTENDS Integers, Sequences, FiniteSets, TLC

(* ---------------------------------------------------------------- bounds *)
\* findHealthyBackend calls of one session (the start-up call and refreshes)
MaxCalls == 2
\* entries the attempt log holds before the session's probing ends
MaxAttempts == 5
\* health probes started in one session (the start-up probe included)
MaxProbes == 4
MaxInFlight == 2
\* registrations held by the listeners array at one time
MaxListeners == 2
\* onHealthChange calls of one session
MaxHandles == 2
\* calls of one unsubscribe function
MaxUnsubscribes == 2
\* calls of the request layer in one session
MaxRequests == 2
\* offline posts created in one session
MaxPosts == 2
\* readings of Date.now() after the first
MaxClock == 2
\* checkBackendHealth calls the Mode Controller starts in one session
MaxChecks == 3
\* setEmergencyMode calls of one session
MaxOverrides == 2
\* entries of the attempt logs the statistics are computed over
MaxLog == 4
\* entries of the attempt log in the sessions where every backend is down
MaxDownAttempts == 8

(* ------------------------------------------------------- string helpers *)
\* String.prototype.startsWith
StartsWith(s, p) ==
  /\ Len(p) <= Len(s)
  /\ \A k \in 1..Len(p) : s[k] = p[k]

\* String.prototype.includes
Includes(s, p) ==
  \E i \in 0..(Len(s) - Len(p)) : \A k \in 1..Len(p) : s[i + k] = p[k]

\* String.prototype.endsWith
EndsWith(s, p) ==
  /\ Len(p) <= Len(s)
  /\ \A k \in 1..Len(p) : s[Len(s) - Len(p) + k] = p[k]

\* String.prototype.trim: drops leading and trailing white space
Trim(s) ==
  LET idx == {k \in 1..Len(s) : s[k] # " "}
  IN  IF idx = {} THEN <<>>
      ELSE LET lo == CHOOSE k \in idx : \A j \in idx : k <= j
               hi == CHOOSE k \in idx : \A j \in idx : k >= j
           IN  SubSeq(s, lo, hi)

\* String.prototype.replace(pattern, by) with a string pattern of one atom:
\* only the first occurrence is replaced
ReplaceFirst(s, pat, by) ==
  LET idx == {k \in 1..Len(s) : s[k] = pat}
  IN  IF idx = {} THEN s
      ELSE LET i == CHOOSE k \in idx : \A j \in idx : k <= j
           IN  [s EXCEPT ![i] = by]

(* ------------------------------------------------------------ JSON.parse *)
\* Index of the first atom at or after i that is not white space
RECURSIVE SkipWs(_, _)
SkipWs(s, i) ==
  IF i > Len(s) THEN Len(s) + 1
  ELSE IF s[i] # " " THEN i
  ELSE SkipWs(s, i + 1)

RECURSIVE ClosingQuote(_, _)
\* Index of the first double quote at or after i, 0 if none
ClosingQuote(s, i) ==
  IF i > Len(s) THEN 0
  ELSE IF s[i] = "dq" THEN i
  ELSE ClosingQuote(s, i + 1)

\* A string literal starting at i: index after its closing quote, 0 if none
ParseString(s, i) ==
  IF i > Len(s) \/ s[i] # "dq" THEN 0
  ELSE LET k == ClosingQuote(s, i + 1)
       IN  IF k = 0 THEN 0 ELSE k + 1

\* A number (a run of the digit "1") starting at i: index after it
RECURSIVE ParseNumber(_, _)
ParseNumber(s, i) ==
  IF i > Len(s) THEN Len(s) + 1
  ELSE IF s[i] # "1" THEN i
  ELSE ParseNumber(s, i + 1)

RECURSIVE ParseValue(_, _)
\* A JSON value starting at or after i: index after it, 0 on a syntax error.
\* The grammar is JSON restricted to the atoms of the alphabet: strings,
\* numbers and objects of at most one member.
ParseValue(s, i0) ==
  LET i == SkipWs(s, i0)
  IN  IF i > Len(s) THEN 0
      ELSE IF s[i] = "dq" THEN ParseString(s, i)
      ELSE IF s[i] = "1" THEN ParseNumber(s, i)
      ELSE IF s[i] = "{" THEN
        LET j == SkipWs(s, i + 1)
        IN  IF j > Len(s) THEN 0
            ELSE IF s[j] = "}" THEN j + 1
            ELSE LET k == ParseString(s, j)
                     m == IF k = 0 THEN 0 ELSE SkipWs(s, k)
                 IN  IF k = 0 \/ m > Len(s) THEN 0
                     ELSE IF s[m] # ":" THEN 0
                     ELSE LET v == ParseValue(s, m + 1)
                              e == IF v = 0 THEN 0 ELSE SkipWs(s, v)
                          IN  IF v = 0 \/ e > Len(s) THEN 0
                              ELSE IF s[e] = "}" THEN e + 1 ELSE 0
      ELSE 0

\* JSON.parse(text) returns (TRUE) or throws a SyntaxError (FALSE)
JSONParses(s) ==
  LET e == ParseValue(s, 1)
  IN  e # 0 /\ SkipWs(s, e) = Len(s) + 1

(* ------------------------------------------------------- JavaScript values *)
\* A JavaScript value that JSON text can denote, or undefined.  Every value is
\* a record of the same shape: t is its type, s the atoms of a string, of a
\* number or of a member's key, items the elements of an array, the members
\* of an object (in property order) or the one value of a member.
JV(t, s, items) == [t |-> t, s |-> s, items |-> items]

JUndefined == JV("undefined", <<>>, <<>>)
JNull      == JV("null", <<>>, <<>>)
JTrue      == JV("true", <<>>, <<>>)
JFalse     == JV("false", <<>>, <<>>)
JStr(s)    == JV("string", s, <<>>)
JNum(s)    == JV("number", s, <<>>)
JArr(xs)   == JV("array", <<>>, xs)
JMember(k, v) == JV("member", k, <<v>>)
JObj(ms)   == JV("object", <<>>, ms)

\* value?.key : the property of an object, undefined for anything else
Prop(v, key) ==
  IF v.t # "object" THEN JUndefined
  ELSE LET idx == {i \in 1..Len(v.items) : v.items[i].s = key}
       IN  IF idx = {} THEN JUndefined
           ELSE v.items[CHOOSE i \in idx : TRUE].items[1]

\* Defining property key on the members ms: an existing property keeps its
\* place and takes the new value, a new one is added last
SetProp(ms, key, v) ==
  LET idx == {i \in 1..Len(ms) : ms[i].s = key}
  IN  IF idx = {} THEN Append(ms, JMember(key, v))
      ELSE [ms EXCEPT ![CHOOSE i \in idx : TRUE] = JMember(key, v)]

RECURSIVE Spread(_, _)
\* { ...members of ms, ...members of more }
Spread(ms, more) ==
  IF more = <<>> THEN ms
  ELSE Spread(SetProp(ms, more[1].s, more[1].items[1]), Tail(more))

\* ToBoolean; a number of the alphabet is a run of the digit "1", never zero
Truthy(v) ==
  \/ v.t \in {"object", "array", "true", "number"}
  \/ v.t = "string" /\ v.s # <<>>

\* a || b
OrElse(a, b) == IF Truthy(a) THEN a ELSE b

(* ------------------------------------------- JSON.parse, building the value *)
ParseFailed == [ok |-> FALSE, pos |-> 0, val |-> JUndefined]

Parsed(pos, val) == [ok |-> TRUE, pos |-> pos, val |-> val]

RECURSIVE JSONValue(_, _)
RECURSIVE JSONElements(_, _, _)
RECURSIVE JSONMembers(_, _, _)

\* The elements of an array after its "[" or after a ",": a value, then "," or "]"
JSONElements(s, i, acc) ==
  LET v == JSONValue(s, i)
      k == IF v.ok THEN SkipWs(s, v.pos) ELSE 0
  IN  IF ~v.ok \/ k > Len(s) THEN ParseFailed
      ELSE IF s[k] = "," THEN JSONElements(s, k + 1, Append(acc, v.val))
      ELSE IF s[k] = "]" THEN Parsed(k + 1, JArr(Append(acc, v.val)))
      ELSE ParseFailed

\* The members of an object after its "{" or after a ",": "key" : value, then
\* "," or "}".  A repeated key keeps its first place and its last value.
JSONMembers(s, i, acc) ==
  LET j == SkipWs(s, i)
      e == ParseString(s, j)
      c == IF e = 0 THEN 0 ELSE SkipWs(s, e)
  IN  IF e = 0 \/ c > Len(s) THEN ParseFailed
      ELSE IF s[c] # ":" THEN ParseFailed
      ELSE LET v == JSONValue(s, c + 1)
               k == IF v.ok THEN SkipWs(s, v.pos) ELSE 0
               ms == SetProp(acc, SubSeq(s, j + 1, e - 2), v.val)
           IN  IF ~v.ok \/ k > Len(s) THEN ParseFailed
               ELSE IF s[k] = "," THEN JSONMembers(s, k + 1, ms)
               ELSE IF s[k] = "}" THEN Parsed(k + 1, JObj(ms))
               ELSE ParseFailed

\* A JSON value starting at or after i0
JSONValue(s, i0) ==
  LET i == SkipWs(s, i0)
  IN  IF i > Len(s) THEN ParseFailed
      ELSE IF s[i] = "dq" THEN
        LET e == ParseString(s, i)
        IN  IF e = 0 THEN ParseFailed ELSE Parsed(e, JStr(SubSeq(s, i + 1, e - 2)))
      ELSE IF s[i] = "1" THEN
        LET e == ParseNumber(s, i) IN Parsed(e, JNum(SubSeq(s, i, e - 1)))
      ELSE IF s[i] = "true" THEN Parsed(i + 1, JTrue)
      ELSE IF s[i] = "false" THEN Parsed(i + 1, JFalse)
      ELSE IF s[i] = "null" THEN Parsed(i + 1, JNull)
      ELSE IF s[i] = "[" THEN
        LET j == SkipWs(s, i + 1)
        IN  IF j > Len(s) THEN ParseFailed
            ELSE IF s[j] = "]" THEN Parsed(j + 1, JArr(<<>>))
            ELSE JSONElements(s, j, <<>>)
      ELSE IF s[i] = "{" THEN
        LET j == SkipWs(s, i + 1)
        IN  IF j > Len(s) THEN ParseFailed
            ELSE IF s[j] = "}" THEN Parsed(j + 1, JObj(<<>>))
            ELSE JSONMembers(s, j, <<>>)
      ELSE ParseFailed

\* The value v read from the start of s is the whole text, or the parse fails
WholeText(s, v) ==
  IF v.ok /\ SkipWs(s, v.pos) = Len(s) + 1 THEN v ELSE ParseFailed

\* JSON.parse(text): ok = FALSE when it throws a SyntaxError
JSONparse(s) == WholeText(s, JSONValue(s, 1))

(* ------------------------------------------------------------ JSON.stringify *)
RECURSIVE JSONstringify(_)
RECURSIVE StringifyElements(_)
RECURSIVE StringifyMembers(_, _)

\* The elements of an array, separated by commas; undefined is written null
StringifyElements(xs) ==
  IF xs = <<>> THEN <<>>
  ELSE (IF xs[1].t = "undefined" THEN <<"null">> ELSE JSONstringify(xs[1]))
         \o (IF Len(xs) > 1 THEN <<",">> \o StringifyElements(Tail(xs)) ELSE <<>>)

\* The members of an object; a member whose value is undefined is left out
StringifyMembers(ms, first) ==
  IF ms = <<>> THEN <<>>
  ELSE IF ms[1].items[1].t = "undefined" THEN StringifyMembers(Tail(ms), first)
  ELSE (IF first THEN <<>> ELSE <<",">>)
         \o <<"dq">> \o ms[1].s \o <<"dq", ":">> \o JSONstringify(ms[1].items[1])
         \o StringifyMembers(Tail(ms), FALSE)

\* JSON.stringify(value) for a value that is not undefined
JSONstringify(v) ==
  IF v.t = "string" THEN <<"dq">> \o v.s \o <<"dq">>
  ELSE IF v.t = "number" THEN v.s
  ELSE IF v.t = "array" THEN <<"[">> \o StringifyElements(v.items) \o <<"]">>
  ELSE IF v.t = "object" THEN <<"{">> \o StringifyMembers(v.items, TRUE) \o <<"}">>
  ELSE <<v.t>>

(* --------------------------------------------------------- response text *)
\* atoms of the response bodies
Alphabet ==
  {" ", "dq", "{", "}", ":", "1", "a",
   "<!DOCTYPE", "<!doctype", "<html", ">", "<title>", "<body>"}

\* length of the bodies enumerated in full
MaxBody == 3

\* {"a":"<v>"} for a string content v
JsonObject(v) == <<"{", "dq", "a", "dq", ":", "dq">> \o v \o <<"dq", "}">>

\* Every text of up to MaxBody atoms, and the one-member JSON objects whose
\* value is a string of at most one atom
Bodies ==
  UNION {[1..n -> Alphabet] : n \in 0..MaxBody}
    \cup {JsonObject(<<>>)}
    \cup {JsonObject(<<a>>) : a \in Alphabet \ {"dq"}}

(* ------------------------------------------------- HTML-Response Detector *)
isHTMLResponse(responseText) ==
  \/ StartsWith(Trim(responseText), <<"<!DOCTYPE">>)
  \/ StartsWith(Trim(responseText), <<"<html">>)
  \/ Includes(responseText, <<"<title>">>)
  \/ Includes(responseText, <<"<body>">>)

\* The inline check of the two probes (Connection Manager, Health Monitor)
ProbeSeesHTML(responseText) ==
  \/ Includes(responseText, <<"<!DOCTYPE">>)
  \/ Includes(responseText, <<"<html", ">">>)

(* ------------------------------------------------------------------ URLs *)
RenderUrl == <<"http", "s", "://", "veilos-backend.onrender.com">>
Local3001 == <<"http", "://", "localhost:3001">>
Local3000 == <<"http", "://", "localhost:3000">>
\* A primary backend supplied by the environment (VITE_API_BASE_URL)
EnvUrl == <<"http", "s", "://", "api.veilo.example">>

\* const backendUrl = import.meta.env.VITE_API_BASE_URL || default
ConfiguredUrls == {RenderUrl, EnvUrl}

fallbackUrls == <<RenderUrl, Local3001, Local3000>>

\* API_CONFIG as the module builds it from backendUrl
InitialConfig(u) ==
  [BASE_URL     |-> u,
   BACKEND_URL  |-> u,
   API_URL      |-> u,
   SOCKET_URL   |-> u,
   WS_URL       |-> ReplaceFirst(u, "http", "ws"),
   DEV_FALLBACK |-> Local3000]

getApiUrl(cfg, endpoint) ==
  IF StartsWith(endpoint, <<"/">>) THEN cfg.BASE_URL \o endpoint
  ELSE cfg.BASE_URL \o <<"/">> \o endpoint

getSocketUrl(cfg) == cfg.SOCKET_URL

getWebSocketUrl(cfg, path) == IF path # <<>> THEN cfg.WS_URL \o path ELSE cfg.WS_URL

HealthEndpoint == <<"/", "api/health">>

(* ------------------------------------------------------------- responses *)
\* HTTP statuses the environment answers with, and their text form
StatusStr(n) ==
  IF n = 200 THEN "200" ELSE IF n = 500 THEN "500" ELSE IF n = 502 THEN "502" ELSE "0"

\* Response.ok
ResponseOk(n) == n >= 200 /\ n <= 299

\* A completed fetch: net = TRUE is a rejected fetch (network failure or the
\* AbortSignal timeout), otherwise status and body are those of the response.
Response(net, status, body, elapsed) ==
  [net |-> net, status |-> status, body |-> body, elapsed |-> elapsed]

JsonBody      == <<"{", "}">>
PageBody      == <<"<!DOCTYPE", " ", "<html", ">", "<body>">>
LangPageBody  == <<"<html", " ", "a", ">", "<body>">>
GarbageBody   == <<"a">>

\* The responses the environment gives to the Health Monitor's probes
SampleResponses ==
  { Response(FALSE, 200, JsonBody, 10),
    Response(FALSE, 500, JsonBody, 20),
    Response(FALSE, 502, PageBody, 30) }

\* The responses of the runs that exercise the subscriptions
SubResponses ==
  { Response(FALSE, 200, JsonBody, 10),
    Response(TRUE, 0, <<>>, 50) }

\* What the Connection Manager's probes get while every backend is down
DownResponses ==
  { Response(FALSE, 502, PageBody, 30),
    Response(TRUE, 0, <<>>, 50) }

\* The responses the environment gives to the Connection Manager's probes
ConnResponses ==
  { Response(FALSE, 200, JsonBody, 10),
    Response(FALSE, 502, PageBody, 30),
    Response(TRUE, 0, <<>>, 50) }

(* =================================================================== *)
(* Emergency Store                                                       *)
(* =================================================================== *)
\* The decimal form of a clock reading, one atom
DigitAtom(n) == <<"0", "1", "2", "3", "4", "5", "6", "7", "8", "9">>[n + 1]

\* The local-storage slot 'emergency_posts': getItem gives null when absent
AbsentSlot == [present |-> FALSE, text |-> <<>>]

Slot(text) == [present |-> TRUE, text |-> text]

\* localStorage.getItem('emergency_posts') || '[]'
StoredText(st) == IF st.present /\ st.text # <<>> THEN st.text ELSE <<"[", "]">>

\* What the operations of the request layer resolve with.  status = -1 and
\* emergency = "absent" stand for a result without that field; a rejected
\* promise has outcome "rejected".
Result(success, data, error, status, emergency, message) ==
  [outcome |-> "resolved", success |-> success, data |-> data, error |-> error,
   status |-> status, emergency |-> emergency, message |-> message]

Rejected ==
  [outcome |-> "rejected", success |-> FALSE, data |-> JUndefined,
   error |-> JStr(<<"TypeError">>), status |-> -1, emergency |-> "absent",
   message |-> JUndefined]

NoResult ==
  [outcome |-> "none", success |-> FALSE, data |-> JUndefined,
   error |-> JUndefined, status |-> -1, emergency |-> "absent",
   message |-> JUndefined]

\* const newPost = { id: `emergency_${Date.now()}`, ...postData, createdAt,
\*                   isEmergencyMode: true, status: 'pending_sync' }
NewPost(postData, now) ==
  JObj(Spread(
    Spread(<<JMember(<<"id">>, JStr(<<"emergency_", DigitAtom(now)>>))>>,
           postData.items),
    <<JMember(<<"createdAt">>, JStr(<<"T", DigitAtom(now)>>)),
      JMember(<<"isEmergencyMode">>, JTrue),
      JMember(<<"status">>, JStr(<<"pending_sync">>))>>))

\* Variant: a failed save empties the slot
SaveFailedEmptiesSlot(st) ==
  [storage |-> Slot(<<"[", "]">>), toast |-> "none", stored |-> FALSE,
   result |-> Result(FALSE, JUndefined, JStr(<<"Failed to save post offline">>),
                     -1, "true", JUndefined)]

\* Variant: the new record is put after the stored ones
PostsAfterPush(existingPosts, newPost) == Append(existingPosts, newPost)

\* existingPosts.unshift(newPost)
PostsAfterUnshift(existingPosts, newPost) == <<newPost>> \o existingPosts

\* The catch block of emergencyCreatePost
SaveFailed(st) ==
  [storage |-> st, toast |-> "none", stored |-> FALSE,
   result |-> Result(FALSE, JUndefined, JStr(<<"Failed to save post offline">>),
                     -1, "true", JUndefined)]

\* The try block of emergencyCreatePost once the slot was read as existing and
\* newPost was built: unshift, setItem, the toast and the result.  A throw (a
\* stored text that does not parse, a stored value without unshift, setItem
\* when quota = TRUE) ends in the catch block's result.
SavePost(existing, newPost, st, quota) ==
  IF ~existing.ok THEN SaveFailed(st)
  ELSE IF existing.val.t # "array" THEN SaveFailed(st)
  ELSE IF quota THEN SaveFailed(st)
  ELSE [storage |-> Slot(JSONstringify(
                      JArr(PostsAfterUnshift(existing.val.items, newPost)))),
        toast   |-> "Post Saved Offline",
        stored  |-> TRUE,
        result  |-> Result(TRUE, newPost, JUndefined, -1, "true", JUndefined)]

\* emergencyCreatePost(postData) at clock reading now; quota = TRUE when
\* localStorage.setItem throws
emergencyCreatePost(postData, st, now, quota) ==
  SavePost(JSONparse(StoredText(st)), NewPost(postData, now), st, quota)

\* getEmergencyPosts(): the parsed slot, [] when JSON.parse throws
ValueOrEmpty(parsed) == IF parsed.ok THEN parsed.val ELSE JArr(<<>>)

\* JSON.parse returned an array
IsList(parsed) == parsed.ok /\ parsed.val.t = "array"

getEmergencyPosts(st) == ValueOrEmpty(JSONparse(StoredText(st)))

\* Variant: only a slot that holds a list is removed
SlotAfterRemovingList(st) ==
  IF st.present /\ IsList(JSONparse(st.text)) THEN AbsentSlot ELSE st

\* localStorage.removeItem('emergency_posts')
SlotAfterRemoveItem(st) == AbsentSlot

(* =================================================================== *)
(* Request executors                                                     *)
(* =================================================================== *)
\* String(value), as the Error constructor applies it to its message
RECURSIVE ToStringJS(_)
ToStringJS(v) ==
  IF v.t \in {"string", "number"} THEN v.s
  ELSE IF v.t = "object" THEN <<"[object Object]">>
  ELSE IF v.t = "array" THEN
    IF v.items = <<>> THEN <<>>
    ELSE (IF v.items[1].t \in {"null", "undefined"} THEN <<>>
          ELSE ToStringJS(v.items[1]))
           \o (IF Len(v.items) > 1 THEN <<",">> \o ToStringJS(JArr(Tail(v.items)))
               ELSE <<>>)
  ELSE <<v.t>>

\* The message of the TypeError a rejected fetch carries
FetchFailedMessage == <<"Failed to fetch">>

HtmlInsteadOfJson == <<"HTML instead of JSON">>

\* let data = null; if (responseText) data = JSON.parse(responseText)
ParsedBody(responseText) ==
  IF responseText = <<>> THEN Parsed(1, JNull) ELSE JSONparse(responseText)

\* emergencyApiRequest from `let data = null` on, p being the outcome of
\* JSON.parse and n the number of JSON.parse calls
EmergencyJsonResult(r, p, n) ==
  IF ~p.ok THEN
    [result |-> Result(FALSE, JUndefined,
                       JStr(<<"Invalid response format from server">>),
                       -1, "true", JUndefined),
     toast |-> "none", parses |-> n, class |-> "malformed"]
  ELSE IF ~ResponseOk(r.status) THEN
    [result |-> Result(FALSE, JUndefined,
                       OrElse(OrElse(Prop(p.val, <<"message">>),
                                     Prop(p.val, <<"error">>)),
                              JStr(<<"HTTP ", StatusStr(r.status)>>)),
                       -1, "false", JUndefined),
     toast |-> "none", parses |-> n, class |-> "http"]
  ELSE
    [result |-> Result(TRUE, OrElse(Prop(p.val, <<"data">>), p.val),
                       JUndefined, -1, "false", JUndefined),
     toast |-> "none", parses |-> n, class |-> "ok"]

\* emergencyApiRequest(url, options) for the outcome r of its fetch: the
\* result, the toast it shows ("none" when none), whether JSON.parse ran and
\* the branch taken
emergencyApiRequest(r) ==
  IF r.net THEN
    [result |-> Result(FALSE, JUndefined, JStr(FetchFailedMessage), -1, "true",
                       JUndefined),
     toast |-> "Network Error", parses |-> 0, class |-> "network"]
  ELSE IF isHTMLResponse(r.body) THEN
    [result |-> Result(FALSE, JUndefined,
                       JStr(<<"Backend server is unavailable - returned ">>
                              \o HtmlInsteadOfJson),
                       -1, "true", JUndefined),
     toast |-> "Backend Connection Issue", parses |-> 0, class |-> "html"]
  ELSE EmergencyJsonResult(r, ParsedBody(r.body), IF r.body = <<>> THEN 0 ELSE 1)

\* The catch block of apiRequest for an APIError(status, _, response, message)
ApiErrorResult(status, response, message) ==
  IF response # <<>> /\ isHTMLResponse(response) THEN
    Result(FALSE, JUndefined,
           JStr(<<"Backend server is unavailable. Please try again later.">>),
           status, "absent", JUndefined)
  ELSE Result(FALSE, JUndefined, JStr(message), status, "absent", JUndefined)

\* apiRequest from `let data = null` on, p being the outcome of JSON.parse
\* and n the number of JSON.parse calls
ApiJsonResult(r, p, n) ==
  IF ~p.ok THEN
    [next |-> "done", parses |-> n, class |-> "malformed",
     result |-> ApiErrorResult(r.status, r.body,
                               <<"Invalid JSON response from server">>)]
  ELSE IF ~ResponseOk(r.status) THEN
    [next |-> "done", parses |-> n, class |-> "http",
     result |-> ApiErrorResult(r.status, r.body,
                  ToStringJS(OrElse(OrElse(Prop(p.val, <<"message">>),
                                           Prop(p.val, <<"error">>)),
                                    JStr(<<"API request failed">>))))]
  ELSE
    [next |-> "done", parses |-> n, class |-> "ok",
     result |-> Result(TRUE, OrElse(Prop(p.val, <<"data">>), p.val),
                       JUndefined, r.status, "absent",
                       Prop(p.val, <<"message">>))]

\* apiRequest(endpoint, options) for the outcome r of its own fetch:
\* next = "emergency" when it goes on to emergencyApiRequest
apiRequest(r) ==
  IF r.net THEN
    [next |-> "done", parses |-> 0, class |-> "network",
     result |-> Result(FALSE, JUndefined, JStr(FetchFailedMessage), 0, "absent",
                       JUndefined)]
  ELSE IF isHTMLResponse(r.body) THEN
    [next |-> "emergency", parses |-> 0, class |-> "html", result |-> NoResult]
  ELSE ApiJsonResult(r, ParsedBody(r.body), IF r.body = <<>> THEN 0 ELSE 1)

\* What apiRequest returns after emergencyApiRequest resolved with er
ApiRequestAfterEmergency(firstStatus, er) ==
  Result(er.success, er.data, er.error, firstStatus, "absent", JUndefined)

\* result.error?.includes('HTML instead of JSON'): "throws" when error is
\* neither null nor undefined and has no includes method
ErrorIncludes(error, pat) ==
  IF error.t \in {"undefined", "null"} THEN "false"
  ELSE IF error.t = "string" THEN
    IF Includes(error.s, pat) THEN "true" ELSE "false"
  ELSE IF error.t = "array" THEN
    IF \E k \in 1..Len(error.items) : error.items[k] = JStr(pat)
    THEN "true" ELSE "false"
  ELSE "throws"

\* !result.success && result.error?.includes('HTML instead of JSON')
BackendIsDown(result) ==
  IF result.success THEN "false" ELSE ErrorIncludes(result.error, HtmlInsteadOfJson)

\* postsService.getAll after apiGet resolved with result, down being the
\* outcome of its condition
GetAllResult(result, down, st) ==
  IF down = "throws" THEN Rejected
  ELSE IF down = "true" THEN
    Result(TRUE, getEmergencyPosts(st), JUndefined, 200, "absent",
           JStr(<<"Loaded from offline storage">>))
  ELSE result

postsServiceGetAll(result, st) == GetAllResult(result, BackendIsDown(result), st)

\* postsService.create(postData) after apiPost resolved with result, down
\* being the outcome of its condition
CreateResult(result, down, postData, st, now) ==
  IF down = "throws" THEN
    [storage |-> st, toast |-> "none", stored |-> FALSE, result |-> Rejected]
  ELSE IF down = "true" THEN emergencyCreatePost(postData, st, now, FALSE)
  ELSE [storage |-> st, toast |-> "none", stored |-> FALSE, result |-> result]

postsServiceCreate(result, postData, st, now) ==
  CreateResult(result, BackendIsDown(result), postData, st, now)

(* =================================================================== *)
(* State                                                                 *)
(* =================================================================== *)
VARIABLES
  backendUrl,          \* api.ts: const backendUrl, the configured default
  API_CONFIG,          \* api.ts: the shared, mutable base-URL configuration
  currentBackendUrl,   \* BackendConnectionManager.currentBackendUrl (pinned)
  attempts,            \* BackendConnectionManager.attempts, the attempt log
  calls,               \* the findHealthyBackend calls: locals and position
  toasts,              \* titles of the toasts emitted so far, in order
  healthStatus,        \* BackendHealthService.healthStatus
  healthCheckInterval, \* BackendHealthService.healthCheckInterval is set
  listeners,           \* BackendHealthService.listeners
  inflight,            \* checkHealth calls awaiting their fetch
  probesStarted,       \* number of checkHealth calls started so far
  handles,             \* the unsubscribe functions handed out, in order:
                       \* the callback each closes over and how often it
                       \* was called
  history,             \* status and toast of each completed probe, in
                       \* completion order (observer)
  lastEvent,           \* the probe completion that led to this state, if
                       \* the last step was one (observer)
  lastDone,            \* id and kind of the latest completed probe (observer)
  stopRequested,       \* stopMonitoring has been called (observer)
  input,               \* the response under test of the single-probe runs
  req,                 \* the call of the request layer: locals and position
  storage,             \* localStorage slot 'emergency_posts'
  clock,               \* Date.now()
  created,             \* the records the successful creations returned, in
                       \* creation order (observer)
  tracked,             \* the slot was absent at some time (observer)
  lastStore,           \* the latest Emergency Store operation (observer)
  isEmergencyMode,     \* EmergencyModeProvider: useState(false), as rendered
  isBackendOnline,     \* EmergencyModeProvider: useState(true), as rendered
  pending,             \* state updates queued since the latest render
  checks,              \* checkStatus / refreshBackendStatus calls awaiting
                       \* checkBackendHealth, each with the isEmergencyMode
                       \* its closure captured
  checksStarted,       \* number of those calls started so far
  overrides,           \* number of setEmergencyMode calls so far
  lastCheck,           \* the latest step of the Mode Controller (observer)
  answer               \* what the function under test returned, in the runs
                       \* that apply one function to every input

cmVars == <<backendUrl, API_CONFIG, currentBackendUrl, attempts, calls>>
hmVars == <<healthStatus, healthCheckInterval, listeners, inflight,
            probesStarted, handles, history, lastEvent, lastDone, stopRequested>>
rlVars == <<req, storage, clock, created, tracked, lastStore>>
mcVars == <<isEmergencyMode, isBackendOnline, pending, checks, checksStarted,
            overrides, lastCheck, answer>>
vars == <<backendUrl, API_CONFIG, currentBackendUrl, attempts, calls, toasts,
          healthStatus, healthCheckInterval, listeners, inflight,
          probesStarted, handles, history, lastEvent, lastDone, stopRequested, input,
          req, storage, clock, created, tracked, lastStore,
          isEmergencyMode, isBackendOnline, pending, checks, checksStarted,
          overrides, lastCheck, answer>>

(* =================================================================== *)
(* Connection Manager                                                    *)
(* =================================================================== *)
\* const healthUrl = url.endsWith('/') ? `${url}api/health` : `${url}/api/health`
ConnHealthUrl(url) ==
  IF EndsWith(url, <<"/">>) THEN url \o <<"api/health">>
  ELSE url \o <<"/", "api/health">>

\* The ConnectionAttempt testBackendConnection resolves with for response r
testBackendConnection(url, r) ==
  IF r.net THEN
    [url |-> url, success |-> FALSE, latency |-> r.elapsed,
     error |-> <<"Connection failed">>]
  ELSE IF ProbeSeesHTML(r.body) THEN
    [url |-> url, success |-> FALSE, latency |-> r.elapsed,
     error |-> <<"Backend returning HTML instead of JSON">>]
  ELSE IF JSONParses(r.body) THEN
    [url |-> url, success |-> ResponseOk(r.status), latency |-> r.elapsed,
     error |-> IF ResponseOk(r.status) THEN <<>>
               ELSE <<"HTTP ", StatusStr(r.status)>>]
  ELSE
    [url |-> url, success |-> FALSE, latency |-> r.elapsed,
     error |-> <<"Invalid JSON response">>]

\* Variant: the pinned URL is tried after the fallbacks
UrlsToTryFallbacksFirst(cur) == fallbackUrls \o <<cur>>

\* const urlsToTry = [this.currentBackendUrl, ...this.fallbackUrls]
UrlsToTry(cur) == <<cur>> \o fallbackUrls

\* Variant: only BASE_URL is assigned when a backend is pinned
PinConfigBaseOnly(cfg, url) == [cfg EXCEPT !.BASE_URL = url]

\* The three assignments to API_CONFIG when a backend is pinned
PinConfig(cfg, url) ==
  [cfg EXCEPT !.BASE_URL = url, !.BACKEND_URL = url, !.API_URL = url]

\* Variant: the URL is pinned whatever the attempt's outcome
PinnedAfterAnyAttempt(cur, attempt) == attempt.url

\* this.currentBackendUrl after an attempt was pushed
PinnedAfter(cur, attempt) == IF attempt.success THEN attempt.url ELSE cur

\* The loop's decision after an attempt on candidate i of n
LoopAfter(attempt, i, n) ==
  IF attempt.success THEN "return"
  ELSE IF i < n THEN "next"
  ELSE "exhausted"

\* Variant: the exhausted loop returns without the toast
NotifyAllOfflineSilent(ts) == ts

\* toast({ title: "All Backends Offline", ... })
NotifyAllOffline(ts) == Append(ts, "All Backends Offline")

IdleCall ==
  [pc |-> "idle", kind |-> "none", urlsToTry |-> <<>>, i |-> 0, ret |-> <<>>,
   pinnedAtStart |-> <<>>, issued |-> <<>>, trace |-> <<>>]

\* findHealthyBackend up to its first await: the candidate list is built and
\* the first candidate's fetch is issued.  issued and trace observe the call:
\* the health URLs it fetched and the attempts it pushed.
StartedCall(kind, cur) ==
  [pc |-> "probing", kind |-> kind, urlsToTry |-> UrlsToTry(cur), i |-> 1,
   ret |-> <<>>, pinnedAtStart |-> cur,
   issued |-> <<ConnHealthUrl(UrlsToTry(cur)[1])>>, trace |-> <<>>]

\* refreshBackendConnection(): a new findHealthyBackend call, in a session
\* whose attempt log holds at most limit entries
RefreshWithin(c, limit) ==
  /\ calls[c].pc = "idle"
  /\ \A d \in 1..(c - 1) : calls[d].pc # "idle"
  /\ Len(attempts) < limit
  /\ calls' = [calls EXCEPT ![c] = StartedCall("refresh", currentBackendUrl)]
  /\ UNCHANGED <<backendUrl, API_CONFIG, currentBackendUrl, attempts, toasts>>
  /\ UNCHANGED <<hmVars, input, rlVars, mcVars>>

refreshBackendConnection(c) == RefreshWithin(c, MaxAttempts)

\* The continuation of findHealthyBackend after `await testBackendConnection`:
\* push the attempt, then pin and return, or go on to the next candidate, or
\* give up with the toast.  It runs without suspension.
ProbeDoneWithin(c, r, limit) ==
  /\ calls[c].pc = "probing"
  /\ Len(attempts) < limit
  /\ LET call    == calls[c]
         url     == call.urlsToTry[call.i]
         attempt == testBackendConnection(url, r)
         step    == LoopAfter(attempt, call.i, Len(call.urlsToTry))
         pinned  == PinnedAfter(currentBackendUrl, attempt)
     IN  /\ attempts' = Append(attempts, attempt)
         /\ currentBackendUrl' = pinned
         /\ API_CONFIG' = IF attempt.success THEN PinConfig(API_CONFIG, url)
                          ELSE API_CONFIG
         /\ toasts' = IF step = "exhausted" THEN NotifyAllOffline(toasts)
                      ELSE toasts
         /\ calls' = [calls EXCEPT ![c] =
              IF step = "return" THEN
                [call EXCEPT !.pc = "done", !.ret = url,
                             !.trace = Append(@, attempt)]
              ELSE IF step = "next" THEN
                [call EXCEPT !.i = @ + 1,
                             !.issued = Append(@, ConnHealthUrl(call.urlsToTry[call.i + 1])),
                             !.trace = Append(@, attempt)]
              ELSE
                [call EXCEPT !.pc = "done", !.ret = pinned,
                             !.trace = Append(@, attempt)]]
  /\ UNCHANGED backendUrl
  /\ UNCHANGED <<hmVars, input, rlVars, mcVars>>

ProbeDone(c, r) == ProbeDoneWithin(c, r, MaxAttempts)

(* =================================================================== *)
(* Health Monitor                                                        *)
(* =================================================================== *)
\* healthStatus before the first probe completes (null in the code)
NoStatus ==
  [isHealthy |-> FALSE, status |-> "unknown", latency |-> 0, error |-> <<>>]

NoEvent ==
  [op |-> "none", id |-> 0, kind |-> "none", atStop |-> FALSE,
   prevId |-> 0, prevKind |-> "none", registered |-> <<>>, invoked |-> <<>>,
   url |-> <<>>, response |-> Response(TRUE, 0, <<>>, 0)]

NoneDone == [id |-> 0, kind |-> "none"]

\* The HealthStatus checkHealth builds for the outcome r of its fetch
HealthOf(r) ==
  IF r.net THEN
    [isHealthy |-> FALSE, status |-> "down", latency |-> r.elapsed,
     error |-> <<"Network error">>]
  ELSE IF ProbeSeesHTML(r.body) THEN
    [isHealthy |-> FALSE, status |-> "down", latency |-> r.elapsed,
     error |-> <<"Backend returning HTML instead of JSON - service misconfigured">>]
  ELSE IF ~JSONParses(r.body) THEN
    [isHealthy |-> FALSE, status |-> "degraded", latency |-> r.elapsed,
     error |-> <<"Invalid JSON response from backend">>]
  ELSE
    [isHealthy |-> ResponseOk(r.status),
     status |-> IF ResponseOk(r.status) THEN "healthy" ELSE "degraded",
     latency |-> r.elapsed,
     error |-> IF ResponseOk(r.status) THEN <<>>
               ELSE <<"HTTP ", StatusStr(r.status)>>]

\* The listener functions of the session: the status indicator's callback,
\* which only stores what it is given, and a one-shot subscriber, which calls
\* its own unsubscribe function from inside the callback.
Callbacks == {"indicator", "oneShot"}

CallbackUnsubscribes(cb) == cb = "oneShot"

\* The unsubscribe closure of onHealthChange: indexOf, then splice(index, 1)
Unsubscribed(ls, cb) ==
  LET idx == {k \in 1..Len(ls) : ls[k] = cb}
  IN  IF idx = {} THEN ls
      ELSE LET i == CHOOSE k \in idx : \A j \in idx : k <= j
           IN  SubSeq(ls, 1, i - 1) \o SubSeq(ls, i + 1, Len(ls))

\* What running listener cb does to the listeners array
RunCallback(cb, ls) == IF CallbackUnsubscribes(cb) THEN Unsubscribed(ls, cb) ELSE ls

RECURSIVE ForEachListener(_, _, _, _)
\* this.listeners.forEach(listener => listener(status)): Array.prototype.forEach
\* visits the indices 1..len of the live array, len being the length when the
\* loop began, and skips an index the array no longer has.
ForEachListener(ls, k, len, invoked) ==
  IF k > len THEN [listeners |-> ls, invoked |-> invoked]
  ELSE IF k > Len(ls) THEN ForEachListener(ls, k + 1, len, invoked)
  ELSE ForEachListener(RunCallback(ls[k], ls), k + 1, len, Append(invoked, ls[k]))

\* Variant: the check that a previous status exists is missing
HealthToastOnFirstProbe(previousStatus, status) ==
  IF previousStatus # status THEN
    IF status = "healthy" THEN "Backend Online"
    ELSE IF status = "down" THEN "Backend Offline"
    ELSE "none"
  ELSE "none"

\* Variant: every change into a non-healthy status shows "Backend Offline"
HealthToastEveryChange(previousStatus, status) ==
  IF previousStatus # "unknown" /\ previousStatus # status THEN
    IF status = "healthy" THEN "Backend Online" ELSE "Backend Offline"
  ELSE "none"

\* The toast of updateHealthStatus, "none" when it shows none
HealthToast(previousStatus, status) ==
  IF previousStatus # "unknown" /\ previousStatus # status THEN
    IF status = "healthy" /\ previousStatus # "healthy" THEN "Backend Online"
    ELSE IF status = "down" /\ previousStatus # "down" THEN "Backend Offline"
    ELSE "none"
  ELSE "none"

\* Variant: a recorded "down" is kept until a healthy result arrives
StoredStatusKeepsDown(prev, status) ==
  IF prev.status = "down" /\ status.status = "degraded" THEN prev ELSE status

\* this.healthStatus = status
StoredStatus(prev, status) == status

\* updateHealthStatus(status): the new field values and what was emitted
updateHealthStatus(prev, status, ls) ==
  LET each == ForEachListener(ls, 1, Len(ls), <<>>)
  IN  [healthStatus |-> StoredStatus(prev, status),
       listeners    |-> each.listeners,
       invoked      |-> each.invoked,
       toast        |-> HealthToast(prev.status, status.status)]

\* A checkHealth call up to its await: the fetch of getApiUrl('/api/health')
NewProbe(id, kind, cfg) ==
  [id |-> id, kind |-> kind, url |-> getApiUrl(cfg, HealthEndpoint),
   atStop |-> FALSE]

\* Variant: the timer is never cleared
IntervalAlwaysFires(h) == TRUE

\* The setInterval callback of startHealthMonitoring fires
IntervalFires(h) == h

ScheduledProbe ==
  /\ IntervalFires(healthCheckInterval)
  /\ probesStarted < MaxProbes
  /\ probesStarted' = probesStarted + 1
  /\ inflight' = inflight \cup {NewProbe(probesStarted + 1, "scheduled", API_CONFIG)}
  /\ UNCHANGED <<healthStatus, healthCheckInterval, listeners, handles, history,
                 lastDone, stopRequested, toasts, input, rlVars, mcVars>>
  /\ lastEvent' = NoEvent
  /\ UNCHANGED cmVars

\* forceHealthCheck(), also the second await of handleRefresh
forceHealthCheck ==
  /\ probesStarted < MaxProbes
  /\ probesStarted' = probesStarted + 1
  /\ inflight' = inflight \cup {NewProbe(probesStarted + 1, "forced", API_CONFIG)}
  /\ UNCHANGED <<healthStatus, healthCheckInterval, listeners, handles, history,
                 lastDone, stopRequested, toasts, input, rlVars, mcVars>>
  /\ lastEvent' = NoEvent
  /\ UNCHANGED cmVars

\* The continuation of checkHealth after its fetch settled with r:
\* the status is built and updateHealthStatus runs, without suspension.
\* recorded says whether the session keeps the record of what was shown
\* (toasts, history); a session that goes on for ever keeps none.
CompleteProbeWith(p, r, recorded) ==
  /\ p \in inflight
  /\ LET status == HealthOf(r)
         upd    == updateHealthStatus(healthStatus, status, listeners)
     IN  /\ healthStatus' = upd.healthStatus
         /\ listeners' = upd.listeners
         /\ toasts' = IF recorded /\ upd.toast # "none"
                      THEN Append(toasts, upd.toast) ELSE toasts
         /\ history' = IF recorded
                       THEN Append(history,
                              [status |-> status.status, toast |-> upd.toast])
                       ELSE history
         /\ lastEvent' =
              [op |-> "probe", id |-> p.id, kind |-> p.kind, atStop |-> p.atStop,
               prevId |-> lastDone.id, prevKind |-> lastDone.kind,
               registered |-> listeners, invoked |-> upd.invoked,
               url |-> p.url, response |-> r]
         /\ lastDone' = [id |-> p.id, kind |-> p.kind]
  /\ inflight' = inflight \ {p}
  /\ UNCHANGED <<healthCheckInterval, probesStarted, handles, stopRequested, input, rlVars, mcVars>>
  /\ UNCHANGED cmVars

CompleteProbe(p, r) == CompleteProbeWith(p, r, TRUE)

\* The probe numbers no checkHealth call in flight carries
FreeProbeIds(ps) == (1..MaxInFlight) \ {p.id : p \in ps}

\* The setInterval callback in a session that goes on for ever: a probe takes
\* the least number no probe in flight carries, and at most MaxInFlight
\* probes are in flight at a time.
RecurringProbe ==
  /\ IntervalFires(healthCheckInterval)
  /\ FreeProbeIds(inflight) # {}
  /\ LET id == CHOOSE k \in FreeProbeIds(inflight) :
                 \A j \in FreeProbeIds(inflight) : k <= j
     IN  inflight' = inflight \cup {NewProbe(id, "scheduled", API_CONFIG)}
  /\ UNCHANGED <<healthStatus, healthCheckInterval, listeners, handles, history,
                 probesStarted, lastDone, stopRequested, toasts, input, rlVars, mcVars>>
  /\ lastEvent' = NoEvent
  /\ UNCHANGED cmVars

\* isBackendReady(): this.healthStatus?.isHealthy === true
isBackendReady(status) == status.isHealthy = TRUE

\* onHealthChange(callback): push, and hand out the unsubscribe function
onHealthChange(cb) ==
  /\ Len(listeners) < MaxListeners
  /\ Len(handles) < MaxHandles
  /\ listeners' = Append(listeners, cb)
  /\ handles' = Append(handles, [cb |-> cb, calls |-> 0])
  /\ UNCHANGED <<healthStatus, healthCheckInterval, inflight, probesStarted,
                 history, lastDone, stopRequested, toasts, input, rlVars, mcVars>>
  /\ lastEvent' = NoEvent
  /\ UNCHANGED cmVars

\* A call of the unsubscribe function the h-th onHealthChange call returned
unsubscribe(h) ==
  /\ h \in 1..Len(handles)
  /\ handles[h].calls < MaxUnsubscribes
  /\ listeners' = Unsubscribed(listeners, handles[h].cb)
  /\ handles' = [handles EXCEPT ![h].calls = @ + 1]
  /\ UNCHANGED <<healthStatus, healthCheckInterval, inflight, probesStarted,
                 history, lastDone, stopRequested, toasts, input, rlVars, mcVars>>
  /\ lastEvent' = NoEvent
  /\ UNCHANGED cmVars

\* healthCheckInterval after stopMonitoring: cleared when set, null either way
ClearedInterval(h) == FALSE

\* The probes in flight after stopMonitoring: clearInterval aborts no request.
\* atStop marks the ones the stop found in flight.
InFlightAfterStop(ps, h) ==
  IF h THEN {[p EXCEPT !.atStop = TRUE] : p \in ps} ELSE ps

stopMonitoring ==
  /\ healthCheckInterval' = ClearedInterval(healthCheckInterval)
  /\ inflight' = InFlightAfterStop(inflight, healthCheckInterval)
  /\ stopRequested' = TRUE
  /\ UNCHANGED <<healthStatus, listeners, probesStarted, handles, history,
                 lastDone, toasts, input, rlVars, mcVars>>
  /\ lastEvent' = NoEvent
  /\ UNCHANGED cmVars

(* =================================================================== *)
(* Request layer: apiRequest, postsService, emergencyApiRequest          *)
(* =================================================================== *)
\* The post contents the UI submits: createPost leaves feeling undefined when
\* none was chosen; the other is a record that already carries an id
Contents ==
  { JObj(<<JMember(<<"content">>, JStr(<<"a">>)),
           JMember(<<"feeling">>, JUndefined)>>),
    JObj(<<JMember(<<"id">>, JStr(<<"p1">>)),
           JMember(<<"content">>, JStr(<<"a">>))>>) }

NoPostData == JObj(<<>>)

Operations == {"apiRequest", "getAll", "create", "emergencyApiRequest"}

\* The bodies the backend answers a request with
MessageBody(v) == <<"{", "dq", "message", "dq", ":">> \o v \o <<"}">>

\* The responses the environment gives to the fetches of the request layer
RequestResponses ==
  { Response(FALSE, 200, JsonBody, 10),
    Response(FALSE, 502, PageBody, 30),
    Response(FALSE, 502, LangPageBody, 30),
    Response(FALSE, 200, GarbageBody, 10),
    Response(FALSE, 500, MessageBody(<<"dq", "a", "dq">>), 20),
    Response(FALSE, 500, MessageBody(<<"1">>), 20),
    Response(TRUE, 0, <<>>, 50) }

IdleRequest ==
  [pc |-> "idle", op |-> "none", postData |-> NoPostData, n |-> 0,
   fetches |-> 0, parses |-> 0, firstClass |-> "none", firstStatus |-> 0,
   class |-> "none", notified |-> <<>>, stored |-> FALSE, result |-> NoResult]

\* A call of one operation of the request layer, up to its first await: the
\* fetch is issued.  fetches, parses, the classes, notified and stored observe
\* the call: the fetches it issued, the JSON.parse calls it made, the branch
\* its first and its last response took, the failure toasts it showed and
\* whether it created an EmergencyPost.
Invoke(op, postData) ==
  /\ req.pc \in {"idle", "done"}
  /\ req.n < MaxRequests
  /\ req' = [IdleRequest EXCEPT
               !.pc = IF op = "emergencyApiRequest" THEN "emergency" ELSE "fetch",
               !.op = op, !.postData = postData, !.n = req.n + 1, !.fetches = 1]
  /\ UNCHANGED <<storage, clock, created, tracked, lastStore, toasts>>
  /\ UNCHANGED <<cmVars, hmVars, input, mcVars>>

\* The part of postsService that runs after apiRequest resolved with result
ServiceTail(op, result, postData, st, now) ==
  IF op = "create" THEN postsServiceCreate(result, postData, st, now)
  ELSE [storage |-> st, toast |-> "none", stored |-> FALSE,
        result |-> IF op = "getAll" THEN postsServiceGetAll(result, st)
                   ELSE result]

Shown(ts, toast) == IF toast = "none" THEN ts ELSE Append(ts, toast)

\* The call rq is over: tail is what the posts service made of the result,
\* shown the toasts once the executors showed theirs
Finished(rq, tail, shown) ==
  /\ req' = [rq EXCEPT !.pc = "done", !.stored = tail.stored,
                       !.result = tail.result]
  /\ storage' = tail.storage
  /\ created' = IF tail.stored THEN Append(created, tail.result.data)
                ELSE created
  /\ toasts' = Shown(shown, tail.toast)

\* The call with the branch an executor took on a response noted in it
Classified(rq, class, parses) ==
  [rq EXCEPT !.parses = @ + parses,
             !.firstClass = IF @ = "none" THEN class ELSE @,
             !.class = class]

\* apiRequest took branch a on the outcome r of its fetch
AfterFetch(r, a) ==
  IF a.next = "emergency" THEN
    /\ req' = [Classified(req, a.class, a.parses) EXCEPT
                 !.pc = "emergency", !.fetches = @ + 1,
                 !.firstStatus = r.status]
    /\ UNCHANGED <<storage, created, toasts>>
  ELSE
    Finished([Classified(req, a.class, a.parses) EXCEPT !.firstStatus = r.status],
             ServiceTail(req.op, a.result, req.postData, storage, clock),
             toasts)

\* apiRequest after its fetch settled with r: either the call is over (and the
\* posts service finishes on its result), or emergencyApiRequest is called and
\* issues its own fetch
FetchSettles(r) ==
  /\ req.pc = "fetch"
  /\ AfterFetch(r, apiRequest(r))
  /\ UNCHANGED <<clock, tracked, lastStore>>
  /\ UNCHANGED <<cmVars, hmVars, input, mcVars>>

\* emergencyApiRequest resolved with e: its caller's continuation
AfterEmergencyFetch(e) ==
  Finished([Classified(req, e.class, e.parses) EXCEPT
              !.notified = Shown(@, e.toast)],
           ServiceTail(req.op,
                       IF req.op = "emergencyApiRequest" THEN e.result
                       ELSE ApiRequestAfterEmergency(req.firstStatus, e.result),
                       req.postData, storage, clock),
           Shown(toasts, e.toast))

\* emergencyApiRequest after its fetch settled with r, and the callers'
\* continuations on its result
EmergencyFetchSettles(r) ==
  /\ req.pc = "emergency"
  /\ AfterEmergencyFetch(emergencyApiRequest(r))
  /\ UNCHANGED <<clock, tracked, lastStore>>
  /\ UNCHANGED <<cmVars, hmVars, input, mcVars>>

\* Date.now() moves on
Tick ==
  /\ clock < MaxClock
  /\ clock' = clock + 1
  /\ UNCHANGED <<req, storage, created, tracked, lastStore, toasts>>
  /\ UNCHANGED <<cmVars, hmVars, input, mcVars>>

(* =================================================================== *)
(* Emergency Store operations                                            *)
(* =================================================================== *)
\* The slot holds a list (a JSON array), and one with entries
HoldsList(st) == st.present /\ IsList(JSONparse(st.text))

HoldsEntries(st) ==
  st.present /\ IsList(JSONparse(st.text))
             /\ ValueOrEmpty(JSONparse(st.text)).items # <<>>

NoStoreOp ==
  [op |-> "none", ok |-> FALSE, ret |-> JUndefined, held |-> FALSE,
   prevOp |-> "none", prevHeld |-> FALSE, base |-> 0,
   res |-> NoResult, quota |-> FALSE]

\* An operation and what it returned; held: the slot held entries before it;
\* base: how many of the created records preceded the latest clear; res and
\* quota: the result a creation resolved with and whether its setItem threw
StoreOp(op, ok, ret) ==
  [op |-> op, ok |-> ok, ret |-> ret, held |-> HoldsEntries(storage),
   prevOp |-> lastStore.op, prevHeld |-> lastStore.held,
   base |-> IF op = "clear" THEN Len(created) ELSE lastStore.base,
   res |-> NoResult, quota |-> FALSE]

\* The variables after emergencyCreatePost returned c
AfterCreate(c, quota) ==
  /\ storage' = c.storage
  /\ toasts' = Shown(toasts, c.toast)
  /\ created' = IF c.stored THEN Append(created, c.result.data) ELSE created
  /\ lastStore' = [StoreOp("create", c.result.success, c.result.data) EXCEPT
                     !.res = c.result, !.quota = quota]

\* createOffline: a call of emergencyCreatePost (it has no await: it runs to
\* its end without suspension)
createOffline(postData, quota) ==
  /\ Len(created) < MaxPosts
  /\ AfterCreate(emergencyCreatePost(postData, storage, clock, quota), quota)
  /\ UNCHANGED <<req, clock, tracked>>
  /\ UNCHANGED <<cmVars, hmVars, input, mcVars>>

\* listOffline: a call of getEmergencyPosts
listOffline ==
  /\ lastStore' = StoreOp("list", TRUE, getEmergencyPosts(storage))
  /\ UNCHANGED <<req, storage, clock, created, tracked, toasts>>
  /\ UNCHANGED <<cmVars, hmVars, input, mcVars>>

\* clearOffline: a call of clearEmergencyPosts
clearOffline ==
  /\ storage' = SlotAfterRemoveItem(storage)
  /\ tracked' = TRUE
  /\ lastStore' = StoreOp("clear", TRUE, JUndefined)
  /\ UNCHANGED <<req, clock, created, toasts>>
  /\ UNCHANGED <<cmVars, hmVars, input, mcVars>>

(* =================================================================== *)
(* Mode Controller: EmergencyModeProvider                                *)
(* =================================================================== *)
\* checkBackendHealth(): what it resolves with for the outcome r of its fetch
checkBackendHealth(r) ==
  IF r.net THEN FALSE
  ELSE IF isHTMLResponse(r.body) THEN FALSE
  ELSE ResponseOk(r.status)

\* The responses the environment gives to the Mode Controller's probes
ModeResponses ==
  { Response(FALSE, 200, JsonBody, 10),
    Response(FALSE, 502, PageBody, 30),
    Response(TRUE, 0, <<>>, 50) }

\* A call of a useState setter: field "mode" is setIsEmergencyMode, field
\* "online" is setIsBackendOnline; by names the caller
Write(field, v, by) == [field |-> field, v |-> v, by |-> by]

RECURSIVE Applied(_, _, _)
\* The value of a state field once the queued updates ws are applied in order
Applied(field, cur, ws) ==
  IF ws = <<>> THEN cur
  ELSE Applied(field, IF Head(ws).field = field THEN Head(ws).v ELSE cur, Tail(ws))

\* A call up to `await checkBackendHealth()`; captured is the isEmergencyMode
\* of the render whose closure the call runs in
NewCheck(id, kind, captured) == [id |-> id, kind |-> kind, captured |-> captured]

NoCheck ==
  [op |-> "none", online |-> FALSE, captured |-> FALSE]

\* The toast of checkStatus after its await, "none" when it shows none
CheckStatusToast(isOnline, captured) ==
  IF ~isOnline /\ ~captured THEN "Offline Mode Enabled"
  ELSE IF isOnline /\ captured THEN "Back Online"
  ELSE "none"

\* The setter calls of checkStatus after its await
CheckStatusWrites(isOnline, captured) ==
  <<Write("online", isOnline, "probe")>> \o
    (IF ~isOnline /\ ~captured THEN <<Write("mode", TRUE, "probe")>>
     ELSE IF isOnline /\ captured THEN <<Write("mode", FALSE, "probe")>>
     ELSE <<>>)

\* The setter calls of refreshBackendStatus after its await
RefreshWrites(isOnline) ==
  <<Write("online", isOnline, "refresh")>> \o
    (IF ~isOnline THEN <<Write("mode", TRUE, "refresh")>> ELSE <<>>)

\* The effect's dependency array [isEmergencyMode]: it runs again after a
\* render that changed the flag
EffectRuns(before, after) == before # after

\* setInterval(checkStatus, 30000) fires: checkStatus of the latest effect run
IntervalCheckStatus ==
  /\ checksStarted < MaxChecks
  /\ checks' = checks \cup {NewCheck(checksStarted + 1, "periodic", isEmergencyMode)}
  /\ checksStarted' = checksStarted + 1
  /\ lastCheck' = [NoCheck EXCEPT !.op = "interval"]
  /\ UNCHANGED <<isEmergencyMode, isBackendOnline, pending, overrides, answer, toasts>>
  /\ UNCHANGED <<cmVars, hmVars, input, rlVars>>

\* refreshBackendStatus() up to its await
refreshBackendStatus ==
  /\ checksStarted < MaxChecks
  /\ checks' = checks \cup {NewCheck(checksStarted + 1, "refresh", isEmergencyMode)}
  /\ checksStarted' = checksStarted + 1
  /\ lastCheck' = [NoCheck EXCEPT !.op = "refresh"]
  /\ UNCHANGED <<isEmergencyMode, isBackendOnline, pending, overrides, answer, toasts>>
  /\ UNCHANGED <<cmVars, hmVars, input, rlVars>>

\* The continuation of checkStatus after checkBackendHealth resolved on r
CheckStatusCompletes(p, r) ==
  /\ p \in checks
  /\ p.kind = "periodic"
  /\ checks' = checks \ {p}
  /\ pending' = pending \o CheckStatusWrites(checkBackendHealth(r), p.captured)
  /\ toasts' = Shown(toasts, CheckStatusToast(checkBackendHealth(r), p.captured))
  /\ lastCheck' = [op |-> "checked", online |-> checkBackendHealth(r),
                   captured |-> p.captured]
  /\ UNCHANGED <<isEmergencyMode, isBackendOnline, checksStarted, overrides, answer>>
  /\ UNCHANGED <<cmVars, hmVars, input, rlVars>>

\* The continuation of refreshBackendStatus after checkBackendHealth resolved
RefreshCompletes(p, r) ==
  /\ p \in checks
  /\ p.kind = "refresh"
  /\ checks' = checks \ {p}
  /\ pending' = pending \o RefreshWrites(checkBackendHealth(r))
  /\ lastCheck' = [op |-> "refreshed", online |-> checkBackendHealth(r),
                   captured |-> p.captured]
  /\ UNCHANGED <<isEmergencyMode, isBackendOnline, checksStarted, overrides,
                 answer, toasts>>
  /\ UNCHANGED <<cmVars, hmVars, input, rlVars>>

\* setEmergencyMode(enabled)
setEmergencyMode(enabled) ==
  /\ overrides < MaxOverrides
  /\ overrides' = overrides + 1
  /\ pending' = Append(pending, Write("mode", enabled, "override"))
  /\ lastCheck' = [NoCheck EXCEPT !.op = "override"]
  /\ UNCHANGED <<isEmergencyMode, isBackendOnline, checks, checksStarted,
                 answer, toasts>>
  /\ UNCHANGED <<cmVars, hmVars, input, rlVars>>

\* React renders the provider with the queued updates applied.  When the flag
\* changed, the effect's cleanup clears the interval and the effect runs
\* again: checkStatus() is called at once, in the new closure.
Render ==
  /\ pending # <<>>
  /\ isEmergencyMode' = Applied("mode", isEmergencyMode, pending)
  /\ isBackendOnline' = Applied("online", isBackendOnline, pending)
  /\ pending' = <<>>
  /\ IF EffectRuns(isEmergencyMode, isEmergencyMode') THEN
       /\ checksStarted < MaxChecks
       /\ checks' = checks \cup
            {NewCheck(checksStarted + 1, "periodic", isEmergencyMode')}
       /\ checksStarted' = checksStarted + 1
     ELSE UNCHANGED <<checks, checksStarted>>
  /\ lastCheck' = [NoCheck EXCEPT !.op = "render"]
  /\ UNCHANGED <<overrides, answer, toasts>>
  /\ UNCHANGED <<cmVars, hmVars, input, rlVars>>

(* =================================================================== *)
(* Connection statistics                                                 *)
(* =================================================================== *)
\* JavaScript numbers as the statistics produce them: a quotient of two
\* naturals, NaN (0 / 0) or Infinity (n / 0)
NaN == [k |-> "NaN", num |-> 0, den |-> 1]

Infinity == [k |-> "Infinity", num |-> 0, den |-> 1]

Whole(n) == [k |-> "number", num |-> n, den |-> 1]

\* a / b
Quotient(a, b) ==
  IF b = 0 THEN (IF a = 0 THEN NaN ELSE Infinity)
  ELSE [k |-> "number", num |-> a, den |-> b]

\* x || 0
NumberOrZero(x) ==
  IF x.k = "NaN" \/ (x.k = "number" /\ x.num = 0) THEN Whole(0) ELSE x

\* Math.round(x): the nearest integer, a half going up
MathRound(x) ==
  IF x.k = "number" THEN Whole((2 * x.num + x.den) \div (2 * x.den)) ELSE x

RECURSIVE CountWhere(_, _)
\* this.attempts.filter(a => a.success === success).length
CountWhere(atts, success) ==
  IF atts = <<>> THEN 0
  ELSE (IF Head(atts).success = success THEN 1 ELSE 0)
       + CountWhere(Tail(atts), success)

RECURSIVE LatencySumOfAll(_)
\* Variant: the latencies of all attempts are summed
LatencySumOfAll(atts) ==
  IF atts = <<>> THEN 0
  ELSE Head(atts).latency + LatencySumOfAll(Tail(atts))

RECURSIVE LatencySum(_)
\* .filter(a => a.success && a.latency).reduce((sum, a) => sum + (a.latency || 0), 0)
LatencySum(atts) ==
  IF atts = <<>> THEN 0
  ELSE (IF Head(atts).success /\ Head(atts).latency # 0
        THEN Head(atts).latency ELSE 0)
       + LatencySum(Tail(atts))

getConnectionStats(atts, cur) ==
  [totalAttempts  |-> Len(atts),
   successful     |-> CountWhere(atts, TRUE),
   failed         |-> CountWhere(atts, FALSE),
   successRate    |-> Quotient(CountWhere(atts, TRUE), Len(atts)),
   averageLatency |-> MathRound(NumberOrZero(
                        Quotient(LatencySum(atts), CountWhere(atts, TRUE)))),
   currentBackend |-> cur]

\* The attempts a log may hold: successes of several latencies (0 ms for an
\* answer within the same millisecond) and a failure
LoggedAttempts ==
  {[url |-> RenderUrl, success |-> TRUE, latency |-> l, error |-> <<>>] :
     l \in {0, 5, 10, 20, 30}}
    \cup {[url |-> RenderUrl, success |-> FALSE, latency |-> 50,
           error |-> <<"Connection failed">>]}

AttemptLogs == UNION {[1..n -> LoggedAttempts] : n \in 0..MaxLog}

\* No function has been applied to the input under test
NoAnswer == [fn |-> "none"]

\* backendConnection.stats() on the attempt log under test
ConnectionStats ==
  /\ answer = NoAnswer
  /\ answer' = [fn |-> "getConnectionStats",
                value |-> getConnectionStats(input, currentBackendUrl)]
  /\ UNCHANGED <<isEmergencyMode, isBackendOnline, pending, checks,
                 checksStarted, overrides, lastCheck, toasts>>
  /\ UNCHANGED <<cmVars, hmVars, input, rlVars>>

\* isHTMLResponse(responseText) on the body of the response under test
DetectHTML ==
  /\ answer = NoAnswer
  /\ answer' = [fn |-> "isHTMLResponse", value |-> isHTMLResponse(input.body)]
  /\ UNCHANGED <<isEmergencyMode, isBackendOnline, pending, checks,
                 checksStarted, overrides, lastCheck, toasts>>
  /\ UNCHANGED <<cmVars, hmVars, input, rlVars>>

(* =================================================================== *)
(* Initial state: the module singletons right after construction        *)
(* =================================================================== *)
\* new BackendConnectionManager() has run initialize() up to its first await
\* and new BackendHealthService() has run startHealthMonitoring().
Constructed ==
  /\ backendUrl \in ConfiguredUrls
  /\ API_CONFIG = InitialConfig(backendUrl)
  /\ currentBackendUrl = API_CONFIG.BASE_URL
  /\ attempts = <<>>
  /\ calls = [c \in 1..MaxCalls |->
               IF c = 1 THEN StartedCall("initialize", API_CONFIG.BASE_URL)
               ELSE IdleCall]
  /\ toasts = <<>>
  /\ healthStatus = NoStatus
  /\ healthCheckInterval = TRUE
  /\ listeners = <<>>
  /\ inflight = {NewProbe(1, "initial", API_CONFIG)}
  /\ probesStarted = 1
  /\ handles = <<>>
  /\ history = <<>>
  /\ lastEvent = NoEvent
  /\ lastDone = NoneDone
  /\ stopRequested = FALSE

NoInput == Response(TRUE, 0, <<>>, 0)

\* EmergencyModeProvider is mounted: the first render is done and its effect
\* has called checkStatus() and set the interval
Mounted ==
  /\ isEmergencyMode = FALSE
  /\ isBackendOnline = TRUE
  /\ pending = <<>>
  /\ checks = {NewCheck(1, "periodic", FALSE)}
  /\ checksStarted = 1
  /\ overrides = 0
  /\ lastCheck = NoCheck
  /\ answer = NoAnswer

\* No request in flight, an absent slot
RequestLayerIdle ==
  /\ req = IdleRequest
  /\ storage = AbsentSlot
  /\ clock = 0
  /\ created = <<>>
  /\ tracked = TRUE
  /\ lastStore = NoStoreOp

Init == Constructed /\ input = NoInput /\ RequestLayerIdle /\ Mounted

NextCM ==
  \/ \E c \in 1..MaxCalls : refreshBackendConnection(c)
  \/ \E c \in 1..MaxCalls : \E r \in ConnResponses : ProbeDone(c, r)

SpecCM == Init /\ [][NextCM]_vars

\* The Connection Manager while every backend is down
NextDown ==
  \/ \E c \in 1..MaxCalls : RefreshWithin(c, MaxDownAttempts)
  \/ \E c \in 1..MaxCalls : \E r \in DownResponses :
       ProbeDoneWithin(c, r, MaxDownAttempts)

SpecDown == Init /\ [][NextDown]_vars

\* One probe of the Health Monitor against every response of ProbeInputs
ProbeInputs ==
  {Response(FALSE, st, b, 10) : st \in {200, 500}, b \in Bodies}
    \cup {Response(TRUE, 0, <<>>, 50)}

InitProbe == Constructed /\ input \in ProbeInputs /\ RequestLayerIdle /\ Mounted

FirstProbeCompletes ==
  \E p \in inflight : p.id = 1 /\ CompleteProbe(p, input)

SpecProbe == InitProbe /\ [][FirstProbeCompletes]_vars

\* The Health Monitor's probing and its cancellation
NextHM ==
  \/ ScheduledProbe
  \/ forceHealthCheck
  \/ \E p \in inflight : \E r \in SampleResponses : CompleteProbe(p, r)
  \/ stopMonitoring

SpecHM == Init /\ [][NextHM]_vars

\* What the backends answer in the sessions that go on for ever: 200 with
\* JSON, 200 with JSON that quotes a document type inside a string, and no
\* answer at all
QuotingBody == <<"{", "dq", "a", "dq", ":", "dq", "<!DOCTYPE", "dq", "}">>

LiveResponses ==
  { Response(FALSE, 200, JsonBody, 10),
    Response(FALSE, 200, QuotingBody, 10),
    Response(TRUE, 0, <<>>, 50) }

FailoverResponses ==
  { Response(FALSE, 200, JsonBody, 10),
    Response(TRUE, 0, <<>>, 50) }

\* The Health Monitor's interval over a session without end, beside the
\* start-up findHealthyBackend pass that may pin a fallback
ProbeSettles(id) ==
  \E p \in inflight : \E r \in LiveResponses :
    p.id = id /\ CompleteProbeWith(p, r, FALSE)

NextLive ==
  \/ RecurringProbe
  \/ \E id \in 1..MaxInFlight : ProbeSettles(id)
  \/ \E r \in FailoverResponses : ProbeDone(1, r)

\* setInterval fires every 30 s until cleared, and every fetch settles: it
\* resolves, rejects, or is aborted by AbortSignal.timeout(10000)
SpecLive ==
  /\ Init
  /\ [][NextLive]_vars
  /\ WF_vars(RecurringProbe)
  /\ \A id \in 1..MaxInFlight : WF_vars(ProbeSettles(id))

\* The Health Monitor's subscriptions under forced probes
NextSub ==
  \/ forceHealthCheck
  \/ \E p \in inflight : \E r \in SubResponses : CompleteProbe(p, r)
  \/ \E cb \in Callbacks : onHealthChange(cb)
  \/ \E h \in 1..MaxHandles : unsubscribe(h)

SpecSub == Init /\ [][NextSub]_vars

\* The request layer against every sample response
NextRq ==
  \/ \E op \in Operations :
       \E postData \in (IF op = "create" THEN Contents ELSE {NoPostData}) :
         Invoke(op, postData)
  \/ \E r \in RequestResponses : FetchSettles(r)
  \/ \E r \in RequestResponses : EmergencyFetchSettles(r)
  \/ Tick

SpecRq == Init /\ [][NextRq]_vars

\* What the slot may hold when the session begins: nothing, an empty text,
\* text that is not JSON, JSON that is not a list, and lists
PriorSlots ==
  { AbsentSlot,
    Slot(<<>>),
    Slot(<<"{">>),
    Slot(<<"{", "}">>),
    Slot(<<"null">>),
    Slot(<<"[", "]">>),
    Slot(JSONstringify(JArr(<<NewPost(NoPostData, 0)>>))) }

InitStore ==
  /\ Constructed
  /\ input = NoInput
  /\ req = IdleRequest
  /\ storage \in PriorSlots
  /\ clock = 0
  /\ created = <<>>
  /\ tracked = (storage = AbsentSlot)
  /\ lastStore = NoStoreOp
  /\ Mounted

NextStore ==
  \/ \E postData \in Contents : \E quota \in BOOLEAN : createOffline(postData, quota)
  \/ listOffline
  \/ clearOffline
  \/ Tick

SpecStore == InitStore /\ [][NextStore]_vars

\* The Mode Controller: periodic and requested probes, overrides, renders
NextMode ==
  \/ IntervalCheckStatus
  \/ refreshBackendStatus
  \/ \E p \in checks : \E r \in ModeResponses : CheckStatusCompletes(p, r)
  \/ \E p \in checks : \E r \in ModeResponses : RefreshCompletes(p, r)
  \/ \E enabled \in BOOLEAN : setEmergencyMode(enabled)
  \/ Render

SpecMode == Init /\ [][NextMode]_vars

\* The statistics over every attempt log of up to MaxLog entries
InitStats ==
  Constructed /\ input \in AttemptLogs /\ RequestLayerIdle /\ Mounted

SpecStats == InitStats /\ [][ConnectionStats]_vars

\* The HTML-Response Detector on every body
SpecDetect == InitProbe /\ [][DetectHTML]_vars

\* The first checkStatus of the Mode Controller gets the response under test
FirstCheckStatusCompletes ==
  \E p \in checks : p.id = 1 /\ CheckStatusCompletes(p, input)

\* The Health Monitor and the Mode Controller each probe a backend that
\* answers with the response under test
NextSignal ==
  \/ FirstProbeCompletes
  \/ FirstCheckStatusCompletes

SpecSignal == InitProbe /\ [][NextSignal]_vars

\* The first candidate of the start-up findHealthyBackend call gets the
\* response under test
FirstAttemptCompletes == attempts = <<>> /\ ProbeDone(1, input)

\* The Connection Manager and the Health Monitor each probe a backend that
\* answers with the response under test
NextClassify ==
  \/ FirstAttemptCompletes
  \/ FirstProbeCompletes

SpecClassify == InitProbe /\ [][NextClassify]_vars

(* =================================================================== *)
(* Properties                                                            *)
(* =================================================================== *)
Last(q) == q[Len(q)]

RECURSIVE TotalPushed(_)
\* Number of attempts the calls 1..c have pushed
TotalPushed(c) == IF c = 0 THEN 0 ELSE Len(calls[c].trace) + TotalPushed(c - 1)

\* The order in which a call that found u pinned must try the candidates
ClaimedOrder(u) == <<u>> \o fallbackUrls

\* What one call did so far agrees with the claimed order of candidates
CallInOrder(c) ==
  LET call == calls[c]
      cand == ClaimedOrder(call.pinnedAtStart)
  IN  call.pc # "idle" =>
        /\ Len(call.issued) <= Len(cand)
        /\ \A k \in 1..Len(call.issued) : call.issued[k] = cand[k] \o <<"/", "api/health">>
        /\ Len(call.trace) = IF call.pc = "probing" THEN Len(call.issued) - 1
                             ELSE Len(call.issued)
        /\ \A k \in 1..Len(call.trace) : call.trace[k].url = cand[k]
        /\ \A k \in 1..(Len(call.trace) - 1) : ~call.trace[k].success
        /\ call.pc = "probing" => \A k \in 1..Len(call.trace) : ~call.trace[k].success
        /\ (call.pc = "done" /\ Last(call.trace).success) =>
             call.ret = Last(call.trace).url

\* The step is call c returning after a successful probe
ReturnsPinned(c) ==
  /\ calls[c].pc = "probing"
  /\ calls'[c].pc = "done"
  /\ Last(calls'[c].trace).success

\* The step is call c returning after its last candidate failed
ReturnsExhausted(c) ==
  /\ calls[c].pc = "probing"
  /\ calls'[c].pc = "done"
  /\ ~Last(calls'[c].trace).success

\* C1: one findHealthyBackend call fetches the candidates in the order
\* [URL pinned when it began, fallback URLs as declared], pushes exactly one
\* attempt per completed probe, and stops at the first success: that URL is
\* pinned and returned and no later candidate is fetched.
C1_ProbesInOrderUntilFirstSuccess ==
  [][ /\ \A c \in 1..MaxCalls : CallInOrder(c)'
      /\ Len(attempts') = TotalPushed(MaxCalls)'
      /\ \A c \in 1..MaxCalls :
           calls'[c].trace # calls[c].trace =>
             /\ attempts' = Append(attempts, Last(calls'[c].trace))
             /\ Len(calls'[c].trace) = Len(calls[c].trace) + 1
      /\ \A c \in 1..MaxCalls :
           ReturnsPinned(c) =>
             /\ currentBackendUrl' = calls'[c].ret
             /\ calls'[c].issued = calls[c].issued ]_vars

\* [A fails, B succeeds, C]: B is pinned and returned, C was never fetched
C1_Witness ==
  \E c \in 1..MaxCalls :
    /\ calls[c].pc = "done"
    /\ Len(calls[c].trace) = 2
    /\ ~calls[c].trace[1].success
    /\ calls[c].trace[2].success
    /\ calls[c].trace[1].url # calls[c].trace[2].url
    /\ Len(calls[c].issued) = 2
    /\ Len(calls[c].urlsToTry) > 2
    /\ calls[c].ret = calls[c].urlsToTry[2]
    /\ currentBackendUrl = calls[c].ret

\* C2: when every candidate probe of a call fails, the call shows exactly one
\* "All Backends Offline" toast, returns the URL that was pinned, and leaves
\* the pinned URL and API_CONFIG as they were; no other step of a
\* findHealthyBackend call shows a toast.
C2_AllFailKeepsPinnedOneToast ==
  [][ /\ \A c \in 1..MaxCalls :
           ReturnsExhausted(c) =>
             /\ \A k \in 1..Len(calls'[c].trace) : ~calls'[c].trace[k].success
             /\ Len(calls'[c].trace) = Len(calls[c].urlsToTry)
             /\ toasts' = Append(toasts, "All Backends Offline")
             /\ calls'[c].ret = currentBackendUrl
             /\ currentBackendUrl' = currentBackendUrl
             /\ API_CONFIG' = API_CONFIG
      /\ (\A c \in 1..MaxCalls : ~ReturnsExhausted(c)) => toasts' = toasts ]_vars

\* A call that failed on all four candidates, with its one toast
C2_Witness ==
  \E c \in 1..MaxCalls :
    /\ calls[c].pc = "done"
    /\ Len(calls[c].trace) = Len(calls[c].urlsToTry)
    /\ \A k \in 1..Len(calls[c].trace) : ~calls[c].trace[k].success
    /\ calls[c].ret = currentBackendUrl
    /\ currentBackendUrl = backendUrl
    /\ API_CONFIG = InitialConfig(backendUrl)
    /\ toasts = <<"All Backends Offline">>

\* URL of the last successful attempt of the log, the default when none
MostRecentSuccess ==
  LET idx == {k \in 1..Len(attempts) : attempts[k].success}
  IN  IF idx = {} THEN backendUrl
      ELSE attempts[CHOOSE k \in idx : \A j \in idx : k >= j].url

\* C3: in every reachable state, overlapping calls included, the pinned URL
\* is the URL of the most recent successful attempt of the log, and the
\* configured default when the log holds no successful attempt.
C3_PinnedIsMostRecentSuccess == currentBackendUrl = MostRecentSuccess

\* A refresh pinned another backend while the start-up call, which has
\* already pushed an attempt, is still probing
C3_Witness ==
  /\ MaxCalls >= 2
  /\ calls[1].pc = "probing"
  /\ Len(calls[1].trace) >= 1
  /\ calls[2].pc = "done"
  /\ Last(calls[2].trace).success
  /\ currentBackendUrl # backendUrl
  /\ currentBackendUrl = Last(attempts).url

\* Every base-URL field and helper of the configuration refers to u
ConfigRefersTo(cfg, u) ==
  /\ cfg.BASE_URL = u
  /\ cfg.BACKEND_URL = u
  /\ cfg.API_URL = u
  /\ cfg.SOCKET_URL = u
  /\ cfg.WS_URL = ReplaceFirst(u, "http", "ws")
  /\ getApiUrl(cfg, HealthEndpoint) = u \o HealthEndpoint
  /\ getSocketUrl(cfg) = u
  /\ getWebSocketUrl(cfg, <<"/", "socket">>) = ReplaceFirst(u, "http", "ws") \o <<"/", "socket">>

\* C4: once a call has pinned a URL, every base-URL field of API_CONFIG
\* (BASE_URL, BACKEND_URL, API_URL, SOCKET_URL, WS_URL) and every result of
\* getApiUrl, getSocketUrl and getWebSocketUrl refers to the pinned URL.
C4_PinPropagatesToWholeConfig ==
  (\E k \in 1..Len(attempts) : attempts[k].success) =>
    ConfigRefersTo(API_CONFIG, currentBackendUrl)

\* The status the rule table gives a probe outcome, "HTML body" being what
\* the HTML-Response Detector detects
RuleTableStatus(r) ==
  IF r.net THEN "down"
  ELSE IF isHTMLResponse(r.body) THEN "down"
  ELSE IF ~JSONParses(r.body) THEN "degraded"
  ELSE IF ResponseOk(r.status) THEN "healthy"
  ELSE "degraded"

\* C5: every completed probe sets the current status by the rule table:
\* HTML body gives down; a non-HTML body that is not valid JSON gives
\* degraded; valid JSON with a non-2xx status gives degraded; valid JSON with
\* a 2xx status gives healthy; a network exception or timeout gives down.
C5_StatusFollowsRuleTable ==
  lastEvent.op = "probe" => healthStatus.status = RuleTableStatus(input)

\* Status the Health Monitor held before completion k
StatusBefore(k) == IF k = 1 THEN "unknown" ELSE history[k - 1].status

\* The toasts of the completed probes, in order
RECURSIVE ToastsOf(_)
ToastsOf(h) ==
  IF h = <<>> THEN <<>>
  ELSE IF Last(h).toast = "none" THEN ToastsOf(SubSeq(h, 1, Len(h) - 1))
  ELSE Append(ToastsOf(SubSeq(h, 1, Len(h) - 1)), Last(h).toast)

IsRecoverySequence(k) ==
  /\ k + 3 <= Len(history)
  /\ history[k].status = "healthy"
  /\ history[k + 1].status = "degraded"
  /\ history[k + 2].status = "down"
  /\ history[k + 3].status = "healthy"

\* Toasts of completions k+1..k+3 into a non-healthy status
IntoNonHealthy(k) ==
  Cardinality({j \in (k + 1)..(k + 3) :
                 history[j].toast # "none" /\ history[j].status # "healthy"})

\* Toasts of completions k+1..k+3 into healthy
IntoHealthy(k) ==
  Cardinality({j \in (k + 1)..(k + 3) :
                 history[j].toast # "none" /\ history[j].status = "healthy"})

C8_EveryRegisteredListenerInvoked ==
  lastEvent.op = "probe" => lastEvent.invoked = lastEvent.registered

\* Ids of the scheduled probes in flight
ScheduledInFlight(ps) == {p.id : p \in {q \in ps : q.kind = "scheduled"}}

\* C9: after stopMonitoring no scheduled probe is started and the timer stays
\* cleared; stopMonitoring on a stopped monitor changes nothing of the
\* program state; no probe in flight is dropped, and a probe that was in
\* flight at the stop records its status when it completes.
C9_StopCancelsOnlyTheTimer ==
  [][ /\ stopRequested =>
           /\ stopRequested'
           /\ ~healthCheckInterval'
           /\ ScheduledInFlight(inflight') \subseteq ScheduledInFlight(inflight)
      /\ (stopRequested /\ stopMonitoring) =>
           UNCHANGED <<healthStatus, healthCheckInterval, listeners, inflight,
                       probesStarted, toasts, API_CONFIG>>
      /\ stopMonitoring => {p.id : p \in inflight'} = {p.id : p \in inflight}
      /\ Len(history') + Cardinality(inflight') = probesStarted'
      /\ (lastEvent'.op = "probe" /\ lastEvent'.atStop) =>
           /\ Len(history') = Len(history) + 1
           /\ healthStatus'.status = Last(history').status ]_vars

\* The monitor is stopped and a probe the stop found in flight has completed
\* and set the current status
C9_Witness ==
  /\ stopRequested
  /\ ~healthCheckInterval
  /\ lastEvent.op = "probe"
  /\ lastEvent.atStop
  /\ healthStatus.status = Last(history).status
  /\ healthStatus.status # "unknown"

\* C10: overlapping probes all complete (none is dropped) and the current
\* status is the result of the probe that completed last.
C10_LastCompletedProbeWins ==
  /\ history = <<>> => healthStatus = NoStatus
  /\ history # <<>> => healthStatus.status = Last(history).status
  /\ Len(history) + Cardinality(inflight) = probesStarted

\* A forced check started after a scheduled probe and completed before it;
\* the scheduled probe completed last with another result, which stands
C10_Witness ==
  /\ lastEvent.op = "probe"
  /\ lastEvent.kind = "scheduled"
  /\ lastEvent.prevKind = "forced"
  /\ lastEvent.prevId > lastEvent.id
  /\ Len(history) >= 2
  /\ history[Len(history) - 1].status # Last(history).status
  /\ healthStatus.status = Last(history).status

(* ------------------------------------------------------- request layer *)
\* The call of the posts service or of apiRequest is over
RequestDone == req.pc = "done" /\ req.op \in {"apiRequest", "getAll", "create"}

\* C11: an apiRequest call whose response body is an HTML document ends with
\* the HTML-down result (success false, the "HTML instead of JSON" error) and
\* makes no JSON.parse call.
C11_HtmlBodyIsHtmlDownNoParse ==
  (req.pc = "done" /\ req.op = "apiRequest" /\ req.firstClass = "html") =>
    /\ req.result.outcome = "resolved"
    /\ ~req.result.success
    /\ req.result.error.t = "string"
    /\ Includes(req.result.error.s, HtmlInsteadOfJson)
    /\ req.parses = 0

\* C12: one call of apiRequest (alone or under the posts service) issues
\* exactly one fetch, whatever the response.
C12_OneHttpCallPerInvocation ==
  req.op \in {"apiRequest", "getAll", "create"} => req.fetches = 1

\* C13: a malformed-JSON response and an HTTP error with valid JSON are not
\* reported as backend-down: the result has no emergency-mode flag set and no
\* EmergencyPost is created; an HTML response and a network failure are the
\* only ones emergencyApiRequest flags.
C13_OnlyHtmlAndNetworkAreBackendDown ==
  req.pc = "done" =>
    /\ req.class \in {"malformed", "http"} =>
         req.result.emergency # "true" /\ ~req.stored
    /\ (req.op = "emergencyApiRequest" /\ req.class \in {"html", "network"}) =>
         req.result.emergency = "true"

\* C14: whatever failure the backend answers with (HTML, malformed JSON, HTTP
\* error, network failure, and any outcome of the emergency retry), apiRequest,
\* postsService.getAll and postsService.create resolve (they do not reject)
\* with a result whose success is false.
C14_FailuresResolveWithSuccessFalse ==
  (RequestDone /\ req.firstClass \in {"html", "malformed", "http", "network"}) =>
    /\ req.result.outcome = "resolved"
    /\ ~req.result.success

\* C15: a call that ends in the HTML-down or the network-failure
\* classification has shown exactly one failure toast.
C15_OneNotificationPerEmergencyClassification ==
  (req.pc = "done" /\ req.class \in {"html", "network"}) => Len(req.notified) = 1

\* C16: postsService.create stores an EmergencyPost for the content and
\* returns it as a successful emergency result when the response is an HTML
\* page or the request fails at network level, and stores none when the
\* backend is reached.
C16_UnreachableSubmissionIsStoredOffline ==
  (req.pc = "done" /\ req.op = "create") =>
    IF req.class \in {"html", "network"} THEN
      /\ req.stored
      /\ req.result.outcome = "resolved"
      /\ req.result.success
      /\ req.result.emergency = "true"
      /\ Prop(req.result.data, <<"content">>) = Prop(req.postData, <<"content">>)
      /\ HoldsEntries(storage)
    ELSE ~req.stored

(* ------------------------------------------------------ Emergency Store *)
Keys(v) == {v.items[i].s : i \in 1..Len(v.items)}

\* Two records give the same value for every property read
ReadsEqual(a, b) ==
  /\ a.t = "object"
  /\ b.t = "object"
  /\ \A k \in Keys(a) \cup Keys(b) : Prop(a, k) = Prop(b, k)

\* The records created since the slot was last absent
CreatedSinceAbsent == SubSeq(created, lastStore.base + 1, Len(created))

\* C17: starting from an absent slot, listOffline returns the records created
\* since, each once, most recent first, and every successful createOffline
\* returns the record it put at the head of the stored list.
C17_ListIsCreatedMostRecentFirst ==
  /\ (tracked /\ lastStore.op = "list") =>
       /\ lastStore.ret.t = "array"
       /\ Len(lastStore.ret.items) = Len(CreatedSinceAbsent)
       /\ \A k \in 1..Len(CreatedSinceAbsent) :
            ReadsEqual(lastStore.ret.items[k],
                       CreatedSinceAbsent[Len(CreatedSinceAbsent) - k + 1])
  /\ (lastStore.op = "create" /\ lastStore.ok) =>
       /\ lastStore.ret = Last(created)
       /\ HoldsEntries(storage)
       /\ ReadsEqual(JSONparse(storage.text).val.items[1], lastStore.ret)

\* Two different records were created and then listed, the second one first;
\* one of them has a property the stored text leaves out
C17_Witness ==
  /\ tracked
  /\ lastStore.op = "list"
  /\ Len(CreatedSinceAbsent) = 2
  /\ ~ReadsEqual(CreatedSinceAbsent[1], CreatedSinceAbsent[2])
  /\ ReadsEqual(lastStore.ret.items[1], CreatedSinceAbsent[2])
  /\ \E k \in 1..2 : Keys(lastStore.ret.items[k]) # Keys(CreatedSinceAbsent[3 - k])

\* C18: any two records created by createOffline have different ids, and
\* every id is the locally synthesized one.
C18_OfflineIdsDistinctAndLocal ==
  \A i, j \in 1..Len(created) :
    /\ StartsWith(Prop(created[i], <<"id">>).s, <<"emergency_">>)
    /\ i # j => Prop(created[i], <<"id">>) # Prop(created[j], <<"id">>)

\* C19: listOffline returns the persisted list when the slot holds one and an
\* empty sequence when the slot is absent or holds anything else.
C19_ListIsStoredListOrEmpty ==
  lastStore.op = "list" =>
    lastStore.ret = IF HoldsList(storage) THEN JSONparse(storage.text).val
                    ELSE JArr(<<>>)

\* C20: clearOffline leaves the slot absent, also when it was absent already,
\* and a listOffline that follows it returns an empty sequence.
C20_ClearThenListIsEmpty ==
  /\ lastStore.op = "clear" => storage = AbsentSlot
  /\ (lastStore.op = "list" /\ lastStore.prevOp = "clear") =>
       lastStore.ret = JArr(<<>>)

\* A list right after a clear of a slot that held entries
C20_Witness ==
  /\ lastStore.op = "list"
  /\ lastStore.prevOp = "clear"
  /\ lastStore.prevHeld
  /\ lastStore.ret = JArr(<<>>)

\* The step is a createOffline call that cannot save: the slot does not hold
\* a list, or localStorage.setItem throws
CreateCannotSave ==
  /\ lastStore'.op = "create"
  /\ lastStore' # lastStore \/ storage' # storage
  /\ ~IsList(JSONparse(StoredText(storage))) \/ lastStore'.quota

\* C21: when createOffline cannot save (corrupt or non-list slot, or a failing
\* storage write) it does not throw: it resolves with success = false and the
\* error "Failed to save post offline", shows no toast and leaves the
\* persisted content as it was.
C21_FailedSaveIsReportedAndChangesNothing ==
  [][CreateCannotSave =>
       /\ lastStore'.res.outcome = "resolved"
       /\ lastStore'.res.success = FALSE
       /\ lastStore'.res.error = JStr(<<"Failed to save post offline">>)
       /\ toasts' = toasts
       /\ storage' = storage
       /\ created' = created]_vars

\* A creation failed on a failing write over a slot that holds entries, which
\* it kept
C21_Witness ==
  /\ lastStore.op = "create"
  /\ lastStore.quota
  /\ ~lastStore.res.success
  /\ lastStore.held
  /\ HoldsEntries(storage)

(* ------------------------------------------------------- Mode Controller *)
\* The emergency-mode flag: the rendered value with the queued updates applied
ModeFlag == Applied("mode", isEmergencyMode, pending)

\* The step is the completion of a checkStatus or refreshBackendStatus call
ModeProbeCompletes == Cardinality(checks') < Cardinality(checks)

\* C22: a completed probe (checkStatus or refreshBackendStatus) that reports
\* not-healthy while the mode is normal puts the mode into emergency, one that
\* reports healthy while the mode is emergency returns it to normal, and one
\* that agrees with the mode leaves it unchanged.
C22_ProbeMovesModeToHealth ==
  [][ModeProbeCompletes =>
       /\ (~lastCheck'.online /\ ~ModeFlag) => ModeFlag'
       /\ (lastCheck'.online /\ ModeFlag) => ~ModeFlag'
       /\ (lastCheck'.online = ~ModeFlag) => (ModeFlag' = ModeFlag)]_vars

\* C23: every change of the flag caused by a probe fires exactly one toast
\* ("Offline Mode Enabled" on entering, "Back Online" on leaving), and a probe
\* that does not change the flag fires none.
C23_OneToastPerModeTransition ==
  [][ModeProbeCompletes =>
       toasts' = IF ModeFlag' = ModeFlag THEN toasts
                 ELSE IF ModeFlag' THEN Append(toasts, "Offline Mode Enabled")
                 ELSE Append(toasts, "Back Online")]_vars

\* An override was written since the latest render
OverridePending == \E k \in 1..Len(pending) : pending[k].by = "override"

\* C24: setEmergencyMode(v) forces the flag to v, a probe evaluated in the
\* cycle in which an override was written does not revert the flag, and the
\* render takes the last write of the cycle.
C24_ProbeDoesNotFightOverride ==
  [][/\ (overrides' = overrides + 1) => (ModeFlag' = Last(pending').v)
     /\ (ModeProbeCompletes /\ OverridePending) => (ModeFlag' = ModeFlag)
     /\ (pending # <<>> /\ pending' = <<>>) => (isEmergencyMode' = ModeFlag)]_vars

\* C25: for every backend response, the signal the Mode Controller uses
\* (checkBackendHealth) reports healthy exactly when the Health Monitor
\* classifies the same response as healthy.
C25_ModeSignalIsMonitorStatus ==
  (lastCheck.op = "checked" /\ history # <<>>) =>
    (lastCheck.online = healthStatus.isHealthy)

\* C26: for every response body, the Connection Manager's probe and the Health
\* Monitor's probe treat the body as HTML (probe failed / status down) exactly
\* when isHTMLResponse returns true for it.
C26_ProbesClassifyHtmlAsDetector ==
  /\ attempts # <<>> =>
       ((attempts[1].error = <<"Backend returning HTML instead of JSON">>)
          <=> (~input.net /\ isHTMLResponse(input.body)))
  /\ history # <<>> =>
       ((healthStatus.error =
           <<"Backend returning HTML instead of JSON - service misconfigured">>)
          <=> (~input.net /\ isHTMLResponse(input.body)))

(* ------------------------------------------------- connection statistics *)
\* The statistics of the log under test have been computed
StatsTaken == answer.fn = "getConnectionStats"

\* Number of entries of the log with the given outcome
Outcomes(log, success) ==
  Cardinality({i \in 1..Len(log) : log[i].success = success})

\* x is the number a / b
IsRatio(x, a, b) == x.k = "number" /\ x.num * b = a * x.den

\* C27: getConnectionStats reports successful = number of attempts with
\* success = true, failed = number with success = false and successRate =
\* successful / total, with successRate = 0 when the log is empty.
C27_CountsAndSuccessRate ==
  StatsTaken =>
    /\ answer.value.successful = Outcomes(input, TRUE)
    /\ answer.value.failed = Outcomes(input, FALSE)
    /\ IF input = <<>> THEN IsRatio(answer.value.successRate, 0, 1)
       ELSE IsRatio(answer.value.successRate, Outcomes(input, TRUE), Len(input))

RECURSIVE SumOver(_, _)
\* Sum of the latencies of the entries of log whose index is in idx
SumOver(log, idx) ==
  IF idx = {} THEN 0
  ELSE LET i == CHOOSE j \in idx : TRUE
       IN  log[i].latency + SumOver(log, idx \ {i})

Successes(log) == {i \in 1..Len(log) : log[i].success}

\* C28: averageLatency is the mean latency of the successful attempts only,
\* rounded to an integer (within one half of the mean), whatever the failed
\* attempts' latencies, and 0 when the log holds no successful attempt.
C28_AverageLatencyOverSuccessesOnly ==
  StatsTaken =>
    /\ answer.value.averageLatency.k = "number"
    /\ answer.value.averageLatency.den = 1
    /\ LET n   == Cardinality(Successes(input))
           sum == SumOver(input, Successes(input))
           avg == answer.value.averageLatency.num
       IN  IF n = 0 THEN avg = 0
           ELSE 2 * avg * n - n <= 2 * sum /\ 2 * sum <= 2 * avg * n + n

\* Three successes of 10, 20 and 30 ms and one failure: the average is 20
C28_Witness ==
  /\ StatsTaken
  /\ Len(input) = 4
  /\ Outcomes(input, FALSE) = 1
  /\ {input[i].latency : i \in Successes(input)} = {10, 20, 30}
  /\ answer.value.averageLatency = Whole(20)

(* ---------------------------------------------------------- notifications *)
\* "All Backends Offline" has been shown and no probe has succeeded since the
\* session began: every backend was down at the previous pass and still is
AllStillOffline ==
  /\ \E k \in 1..Len(toasts) : toasts[k] = "All Backends Offline"
  /\ \A k \in 1..Len(attempts) : ~attempts[k].success

\* C29: the notifications are fired on a state transition only, never on
\* steady-state polling: a findHealthyBackend pass that finds all backends
\* down, as the previous pass did, shows no "All Backends Offline" toast.
C29_NoToastOnSteadyState ==
  [][toasts' = Append(toasts, "All Backends Offline") => ~AllStillOffline]_vars

(* ------------------------------------------------- HTML-Response Detector *)
\* A doctype declaration begins the text: the keyword in any letter case
StartsWithDoctype(text) ==
  text # <<>> /\ text[1] \in {"<!DOCTYPE", "<!doctype"}

\* C30: isHTMLResponse(text) is true if and only if the trimmed text starts
\* with a doctype declaration (whatever its letter case), or the trimmed text
\* starts with an opening html tag, or the text contains a title tag, or the
\* text contains a body tag; and the call changes nothing else.
C30_DetectorIsTheFourWayOr ==
  answer.fn = "isHTMLResponse" =>
    (answer.value <=>
       \/ StartsWithDoctype(Trim(input.body))
       \/ StartsWith(Trim(input.body), <<"<html">>)
       \/ Includes(input.body, <<"<title>">>)
       \/ Includes(input.body, <<"<body>">>))

\* The text is a syntactically valid minified JSON object: it parses to an
\* object and is written exactly as JSON.stringify writes that object
IsMinifiedObject(text, parsed) ==
  parsed.ok /\ parsed.val.t = "object" /\ JSONstringify(parsed.val) = text

\* C31: for every syntactically valid minified JSON object text, also one
\* whose string values contain "<title>" or "<body>", isHTMLResponse returns
\* false.
C31_MinifiedJsonObjectIsNotHtml ==
  (answer.fn = "isHTMLResponse"
     /\ IsMinifiedObject(input.body, JSONparse(input.body))) => ~answer.value

(* ------------------------------------------------------ apiRequest result *)
\* C32: every result of apiRequest is internally consistent: success = true
\* comes with a 2xx status, also when the first response was HTML and the
\* result is that of the emergency retry.
C32_SuccessHasSuccessStatus ==
  (req.pc = "done" /\ req.op = "apiRequest"
     /\ req.result.outcome = "resolved" /\ req.result.success) =>
    ResponseOk(req.result.status)

(* ----------------------------------------------------------- subscriptions *)
\* Number of registrations of callback cb in the listeners array ls
Registrations(ls, cb) == Cardinality({k \in 1..Len(ls) : ls[k] = cb})

\* The step is a call of the unsubscribe function h
UnsubscribeCalled(h) ==
  /\ Len(handles') = Len(handles)
  /\ handles'[h].calls = handles[h].calls + 1

\* C33: the unsubscribe function returned by onHealthChange removes only its
\* own subscription and is idempotent: its first call takes one registration
\* of its callback out of the listeners and leaves every other registration
\* (a second registration of the same callback included) in place, and
\* calling it again changes nothing.
C33_UnsubscribeOwnOnlyAndIdempotent ==
  [][\A h \in 1..Len(handles) :
       UnsubscribeCalled(h) =>
         IF handles[h].calls = 0 THEN
           \A cb \in Callbacks :
             Registrations(listeners', cb) =
               IF cb = handles[h].cb /\ Registrations(listeners, cb) > 0
               THEN Registrations(listeners, cb) - 1
               ELSE Registrations(listeners, cb)
         ELSE listeners' = listeners]_vars

(* ------------------------------------------------------ pinned base URL *)
\* C34: in every reachable state, for every interleaving of findHealthyBackend
\* calls, BASE_URL, BACKEND_URL and API_URL are equal to one another and to
\* the pinned URL (getCurrentBackendUrl), and getApiUrl resolves against it.
C34_ApiFieldsEqualPinnedUrl ==
  /\ API_CONFIG.BASE_URL = currentBackendUrl
  /\ API_CONFIG.BACKEND_URL = currentBackendUrl
  /\ API_CONFIG.API_URL = currentBackendUrl
  /\ getApiUrl(API_CONFIG, HealthEndpoint) = currentBackendUrl \o HealthEndpoint

\* Two overlapping calls have each recorded attempts and a fallback that is
\* not the configured backend is pinned
C34_Witness ==
  /\ currentBackendUrl # backendUrl
  /\ calls[1].trace # <<>>
  /\ calls[2].trace # <<>>
  /\ \E k \in 1..Len(attempts) :
       attempts[k].success /\ attempts[k].url = currentBackendUrl
  /\ C34_ApiFieldsEqualPinnedUrl

(* ------------------------------------------------- recovery of the monitor *)
\* A probe completed in this step
ProbeCompletes == Cardinality(inflight') < Cardinality(inflight)

\* Every probe of the pinned backend that completes in this step was answered
\* with 2xx and a body that parses as JSON
PinnedAnswersWell ==
  (ProbeCompletes /\ lastEvent'.url = getApiUrl(API_CONFIG, HealthEndpoint)) =>
    /\ ~lastEvent'.response.net
    /\ ResponseOk(lastEvent'.response.status)
    /\ JSONParses(lastEvent'.response.body)

\* C35: while monitoring is not stopped, if from some point on the pinned
\* backend answers every health probe with 2xx and valid JSON, then under fair
\* scheduling of the interval the status eventually becomes healthy and stays
\* healthy (isBackendReady is true), also when a fallback was pinned while an
\* older probe against the previous URL was in flight.
C35_EventuallyHealthyForGood ==
  (<>[][PinnedAnswersWell]_vars) => <>[]isBackendReady(healthStatus)

====
